---- MODULE Spec2Model ----
(***************************************************************************)
(* Flight-search aggregation of gwindapp-passagens-backend:                *)
(*   src/multiAPI.js      the three provider adapters, normalizeFlight,    *)
(*                        calculateReliability, deduplicateFlights, the    *)
(*                        orchestrator searchFlightsMultiAPI and the price *)
(*                        confirmation (confirmFlightPrice,                *)
(*                        confirmMultipleFlightPrices);                    *)
(*   src/unnamed/part_000 the flight-search service: searchFlights with    *)
(*                        its mock fallback and generateMockFlights.       *)
(*                                                                         *)
(* Units.  Prices are whole currency units.  A reliability score is kept   *)
(* in tenths (0.5 is 5, 1.0 is 10): the code only ever adds 0.5, 0.4, 0.3, *)
(* 0.2 and 0.1 and takes Math.min(1.0, .), and the sums that differ in     *)
(* exact arithmetic differ as doubles too, so the order is the same.       *)
(***************************************************************************)
EXTENDS Integers, Sequences, FiniteSets, TLC

\* ------------------------------------------------------------- bounds
\* Most offers the providers of one search deliver together.
MaxResults == 3
\* Longest list handed to confirmMultipleFlightPrices.
MaxBatch == 7
\* Number of Math.random outcomes of generateMockFlights that are told apart.
MockSeeds == 2
\* The longest string over CityAlphabet handed to getCityCode.
MaxCityLen == 3
\* The last minute of the clock.
MaxClock == 5
\* Most tokens the authorization endpoint issues.
MaxTokens == 3
\* The own keys of an availability response, at most.
MaxOwnKeys == 2
\* The offers of one answer where progress is checked, at most.
LiveResults == 1
\* The offers of one answer where two calls run side by side, at most.
PairResults == 1

\* -------------------------------------------------- program constants
\* for (let i = 0; i < 15; i++) of generateMockFlights
MockCount == 15
\* flightOffers.slice(0, 5) of confirmMultipleFlightPrices
BatchLimit == 5
\* the 60000 ms taken off a token's lifetime by getAmadeusToken, in minutes
Margin == 1

\* ------------------------------------------------ JavaScript values
\* A value of a field whose type the code does not fix: undefined, NaN, a
\* number or a string.  typeof NaN is "number"; it is kept apart because
\* every comparison with it is false and it is falsy.
Undefined == [t |-> "undefined", n |-> 0, s |-> ""]
NaN == [t |-> "NaN", n |-> 0, s |-> ""]
Num(k) == [t |-> "number", n |-> k, s |-> ""]
Str(x) == [t |-> "string", n |-> 0, s |-> x]

\* ToBoolean: undefined, NaN, 0 and "" are falsy.
Truthy(v) ==
  CASE v.t = "number" -> v.n # 0
    [] v.t = "string" -> v.s # ""
    [] OTHER -> FALSE

\* v || d
OrElse(v, d) == IF Truthy(v) THEN v ELSE d

\* The decimal numerals that occur as strings in payloads, with their value.
Numerals == {"0", "500", "800", "-100", "900", "1500", "2700"}
NumeralValue(x) ==
  CASE x = "0" -> 0
    [] x = "500" -> 500
    [] x = "800" -> 800
    [] x = "-100" -> 0 - 100
    [] x = "900" -> 900
    [] x = "1500" -> 1500
    [] x = "2700" -> 2700

\* parseFloat(v): a number is itself, a numeral string its value, anything
\* else (undefined, "", "abc", NaN) is NaN.
parseFloat(v) ==
  CASE v.t = "number" -> v
    [] v.t = "string" /\ v.s \in Numerals -> Num(NumeralValue(v.s))
    [] OTHER -> NaN

\* parseInt(v): the numerals of the model are whole, where it agrees with parseFloat.
parseInt(v) == parseFloat(v)

\* a > b on numbers; false as soon as one side is NaN or undefined.
Greater(a, b) == a.t = "number" /\ b.t = "number" /\ a.n > b.n

\* ------------------------------------------------------- the request
\* One search request; both names are already 3-letter codes.
ReqOrigem == "GRU"
ReqDestino == "SDU"
ReqDate == "2025-12-25"

\* dataIda strings of the model and their first ten characters
\* (flight.dataIda?.substring(0, 10)); a shorter string is its own prefix.
Substring10(x) ==
  CASE x = "2025-12-25T08:00:00" -> "2025-12-25"
    [] x = "2025-12-25T18:30:00" -> "2025-12-25"
    [] x = "2025-12-25T08:00:00+00:00" -> "2025-12-25"
    [] x = "2025-12-26T08:00:00" -> "2025-12-26"
    [] OTHER -> x

\* companhiaMap[code] || code
companhiaMap(code) ==
  CASE code = "LA" -> "LATAM"
    [] code = "JJ" -> "LATAM"
    [] code = "G3" -> "GOL"
    [] code = "AD" -> "Azul"
    [] OTHER -> code

\* ---------------------------------------------- calculateReliability
\* flight.ida stands for flight.detalhes.ida: Undefined when detalhes or
\* detalhes.ida is missing, else Num(length of the array).
calculateReliability_NoClamp(flight, source) ==
  LET bySource == IF source = "TRAVELLINK" THEN 5 + 4
                  ELSE IF source = "AMADEUS" THEN 5 + 3
                  ELSE IF source = "AVIATIONSTACK" THEN 5 + 2
                  ELSE 5
      byDetail == IF flight.ida.t = "number" /\ flight.ida.n > 0 THEN 1 ELSE 0
      byPrice == IF Truthy(flight.preco) /\ Greater(parseFloat(flight.preco), Num(0))
                 THEN 1 ELSE 0
  IN bySource + byDetail + byPrice

\* The same with one weight for every known source.
calculateReliability_EqualWeights(flight, source) ==
  LET bySource == IF source \in {"TRAVELLINK", "AMADEUS", "AVIATIONSTACK"} THEN 5 + 3 ELSE 5
      byDetail == IF flight.ida.t = "number" /\ flight.ida.n > 0 THEN 1 ELSE 0
      byPrice == IF Truthy(flight.preco) /\ Greater(parseFloat(flight.preco), Num(0))
                 THEN 1 ELSE 0
      score == bySource + byDetail + byPrice
  IN IF score > 10 THEN 10 ELSE score

calculateReliability(flight, source) ==
  LET bySource == IF source = "TRAVELLINK" THEN 5 + 4
                  ELSE IF source = "AMADEUS" THEN 5 + 3
                  ELSE IF source = "AVIATIONSTACK" THEN 5 + 2
                  ELSE 5
      byDetail == IF flight.ida.t = "number" /\ flight.ida.n > 0 THEN 1 ELSE 0
      byPrice == IF Truthy(flight.preco) /\ Greater(parseFloat(flight.preco), Num(0))
                 THEN 1 ELSE 0
      score == bySource + byDetail + byPrice
  IN IF score > 10 THEN 10 ELSE score

\* --------------------------------------------------- normalizeFlight
\* The fields of an offer the model keeps: id, preco, companhia, origem,
\* destino, dataIda, escalasIda, ida (detalhes.ida), linkReserva, fonte,
\* confiabilidade.  A missing id is replaced by a fresh
\* `${source}-${Date.now()}-${Math.random()}`.
normalizeFlight(flight, source) ==
  [ id |-> OrElse(flight.id, Str(source \o "-now-random")),
    preco |-> OrElse(parseFloat(flight.preco), Num(0)),
    companhia |-> OrElse(flight.companhia, Str("N/A")),
    origem |-> OrElse(flight.origem, Str("")),
    destino |-> OrElse(flight.destino, Str("")),
    dataIda |-> OrElse(flight.dataIda, Str("")),
    escalasIda |-> OrElse(flight.escalasIda, Num(0)),
    ida |-> flight.ida,
    linkReserva |-> OrElse(flight.linkReserva, Str(source)),
    fonte |-> Str(source),
    confiabilidade |-> Num(calculateReliability(flight, source)) ]

\* ------------------------------------------------ deduplicateFlights
\* `${origem}-${destino}-${dataIda?.substring(0, 10)}-${companhia}`
TemplateText(v) == IF v.t = "string" THEN v.s ELSE "undefined"
dedupKey(flight) ==
  TemplateText(flight.origem) \o "-" \o TemplateText(flight.destino) \o "-"
    \o (IF flight.dataIda.t = "string" THEN Substring10(flight.dataIda.s) ELSE "undefined")
    \o "-" \o TemplateText(flight.companhia)

\* flight.detalhes?.ida?.length || 0
idaLength(flight) == IF flight.ida.t = "number" THEN flight.ida.n ELSE 0

\* unique.findIndex(f => f.id === existing.id); 0 stands for -1.
findIndexById(unique, id) ==
  LET hits == {i \in 1..Len(unique) : unique[i].id = id}
  IN IF hits = {} THEN 0 ELSE CHOOSE i \in hits : \A j \in hits : i <= j

\* The condition under which a colliding flight takes the place of the stored one.
replaces(flight, existing) ==
  \/ Greater(flight.confiabilidade, existing.confiabilidade)
  \/ idaLength(flight) > idaLength(existing)

\* One turn of the for loop: st = [seen, unique], seen a map from keys to flights.
dedupStep(st, flight) ==
  LET key == dedupKey(flight)
  IN IF key \notin DOMAIN st.seen
     THEN [seen |-> (key :> flight) @@ st.seen, unique |-> Append(st.unique, flight)]
     ELSE LET existing == st.seen[key]
              index == findIndexById(st.unique, existing.id)
          IN IF replaces(flight, existing)
             THEN [seen |-> [st.seen EXCEPT ![key] = flight],
                   unique |-> IF index # 0
                              THEN [st.unique EXCEPT ![index] = flight]
                              ELSE st.unique]
             ELSE st

RECURSIVE dedupLoop(_, _)
dedupLoop(st, flights) ==
  IF flights = <<>> THEN st
  ELSE dedupLoop(dedupStep(st, Head(flights)), Tail(flights))

deduplicateFlights(flights) ==
  dedupLoop([seen |-> <<>>, unique |-> <<>>], flights).unique

\* --------------------------------------- the sort of searchFlightsMultiAPI
\* The comparator of uniqueFlights.sort: negative when a goes first.
compareFlights_PriceFirst(a, b) ==
  IF a.preco.n # b.preco.n
  THEN a.preco.n - b.preco.n
  ELSE b.confiabilidade.n - a.confiabilidade.n

compareFlights(a, b) ==
  IF b.confiabilidade # a.confiabilidade
  THEN b.confiabilidade.n - a.confiabilidade.n
  ELSE a.preco.n - b.preco.n

\* Array.prototype.sort is stable: an element goes behind every element that
\* does not compare greater than it.
RECURSIVE insertFlight(_, _)
insertFlight(sorted, x) ==
  IF sorted = <<>> THEN <<x>>
  ELSE IF compareFlights(Head(sorted), x) <= 0
       THEN <<Head(sorted)>> \o insertFlight(Tail(sorted), x)
       ELSE <<x>> \o sorted

RECURSIVE sortLoop(_, _)
sortLoop(sorted, rest) ==
  IF rest = <<>> THEN sorted
  ELSE sortLoop(insertFlight(sorted, Head(rest)), Tail(rest))

sortFlights(flights) == sortLoop(<<>>, flights)

\* ------------------------------------------------------ the adapters
\* What an async adapter call settles to.
Fulfilled(flights) == [rejected |-> FALSE, flights |-> flights, message |-> ""]
Rejected(message) == [rejected |-> TRUE, flights |-> <<>>, message |-> message]

\* A provider response: fail = "" and the payload, or the kind of failure.
Answer(data) == [fail |-> "", data |-> data]
Failure(kind) == [fail |-> kind, data |-> <<>>]

\* The map callback of searchAmadeus.  A raw offer is [id, total, carrier,
\* nseg, at]: offer.id, offer.price.total, the carrier code and the departure
\* time of the first outbound segment, and the number of outbound segments.
formatAmadeusOffer(offer, index) ==
  normalizeFlight(
    [ id |-> OrElse(offer.id, Str("amadeus-" \o ToString(index))),
      preco |-> OrElse(offer.total, Str("0")),
      companhia |-> Str(IF offer.nseg > 0 THEN companhiaMap(offer.carrier) ELSE "N/A"),
      origem |-> Str(IF offer.nseg > 0 THEN ReqOrigem ELSE ""),
      destino |-> Str(IF offer.nseg > 0 THEN ReqDestino ELSE ""),
      dataIda |-> Str(IF offer.nseg > 0 THEN offer.at ELSE ""),
      escalasIda |-> Num((IF offer.nseg = 0 THEN 1 ELSE offer.nseg) - 1),
      ida |-> Num(offer.nseg),
      linkReserva |-> Str("AMADEUS") ],
    "AMADEUS")

\* searchAmadeus: disabled gives []; every failure of the token exchange or of
\* the search request lands in the catch, which logs and returns [].
searchAmadeus(enabled, resp) ==
  IF ~enabled THEN Fulfilled(<<>>)
  ELSE IF resp.fail # "" THEN Fulfilled(<<>>)
  ELSE Fulfilled([i \in 1..Len(resp.data) |-> formatAmadeusOffer(resp.data[i], i - 1)])

\* new Date().toISOString() at the time of the call
NowISO == "2026-01-10T12:00:00.000Z"

\* formatarVooTravelLink.  A raw voo is [Id, Preco, Companhia, DataPartida,
\* HoraPartida, Escalas].
formatarVooTravelLink(voo, origemCode, destinoCode, index) ==
  LET companhia == OrElse(voo.Companhia, Str("N/A"))
      preco == OrElse(voo.Preco, Str("0"))
      escalas == OrElse(voo.Escalas, Num(0))
  IN normalizeFlight(
       [ id |-> OrElse(voo.Id, Str("travellink-" \o ToString(index) \o "-now")),
         preco |-> OrElse(parseFloat(preco), Num(0)),
         companhia |-> Str(companhiaMap(companhia.s)),
         origem |-> Str(origemCode),
         destino |-> Str(destinoCode),
         dataIda |-> IF Truthy(voo.DataPartida)
                     THEN Str(voo.DataPartida.s \o "T" \o voo.HoraPartida.s \o ":00")
                     ELSE Str(NowISO),
         escalasIda |-> OrElse(parseInt(escalas), Num(0)),
         ida |-> Num(1),
         linkReserva |-> Str("TRAVELLINK") ],
       "TRAVELLINK")

\* searchTravelLink with processarResultadosTravelLink on a bare array of
\* voos: every failure (client construction, missing operation, remote fault,
\* timeout) is caught and gives [].
searchTravelLink(enabled, resp) ==
  IF ~enabled THEN Fulfilled(<<>>)
  ELSE IF resp.fail # "" THEN Fulfilled(<<>>)
  ELSE Fulfilled([i \in 1..Len(resp.data) |->
                    formatarVooTravelLink(resp.data[i], ReqOrigem, ReqDestino, i - 1)])

\* The map callback of searchAviationStack.  A raw flight is [airline, scheduled].
formatAviationStackFlight(flight, origemCode, destinoCode, index) ==
  normalizeFlight(
    [ id |-> Str("aviationstack-" \o ToString(index)),
      preco |-> Str("0"),
      companhia |-> OrElse(flight.airline, Str("N/A")),
      origem |-> Str(origemCode),
      destino |-> Str(destinoCode),
      dataIda |-> OrElse(flight.scheduled, Str("")),
      escalasIda |-> Num(0),
      ida |-> Num(1),
      linkReserva |-> Str("AVIATIONSTACK") ],
    "AVIATIONSTACK")

searchAviationStack(enabled, resp) ==
  IF ~enabled THEN Fulfilled(<<>>)
  ELSE IF resp.fail # "" THEN Fulfilled(<<>>)
  ELSE Fulfilled([i \in 1..Len(resp.data) |->
                    formatAviationStackFlight(resp.data[i], ReqOrigem, ReqDestino, i - 1)])

\* ----------------------------------------------- generateMockFlights
\* Math.random is a choice of the environment; seed names one run of draws.
companhias ==
  << "LATAM", "GOL", "Azul", "TAM", "Emirates", "Air France", "KLM", "Lufthansa",
     "TAP", "Qatar Airways", "American Airlines", "Delta", "United",
     "British Airways", "Iberia" >>

\* precoBase.toFixed(2) of the i-th flight: a string.
mockPreco(seed, i) == << "900", "1500", "2700" >>[(((seed + 1) * (i + 1)) % 3) + 1]

mockFlight(origem, destino, seed, i) ==
  [ id |-> Str("mock-flight-" \o ToString(i)),
    preco |-> Str(mockPreco(seed, i)),
    companhia |-> Str(companhias[((seed + i) % Len(companhias)) + 1]),
    origem |-> Str(origem),
    destino |-> Str(destino),
    dataIda |-> Str(ReqDate \o "T08:00:00.000Z"),
    escalasIda |-> Num((seed + i) % 2),
    ida |-> Num(1),
    linkReserva |-> Str("MOCK"),
    fonte |-> Undefined,
    confiabilidade |-> Undefined ]

\* voos.sort((a, b) => parseFloat(a.preco) - parseFloat(b.preco)), stable.
RECURSIVE insertMock(_, _)
insertMock(sorted, x) ==
  IF sorted = <<>> THEN <<x>>
  ELSE IF parseFloat(Head(sorted).preco).n - parseFloat(x.preco).n <= 0
       THEN <<Head(sorted)>> \o insertMock(Tail(sorted), x)
       ELSE <<x>> \o sorted

RECURSIVE sortMockLoop(_, _)
sortMockLoop(sorted, rest) ==
  IF rest = <<>> THEN sorted
  ELSE sortMockLoop(insertMock(sorted, Head(rest)), Tail(rest))

generateMockFlights(origem, destino, seed) ==
  sortMockLoop(<<>>, [k \in 1..MockCount |-> mockFlight(origem, destino, seed, k - 1)])

\* ------------------------------------------------------------- state
Providers == {"TRAVELLINK", "AMADEUS", "AVIATIONSTACK"}

VARIABLES
  API_CONFIG,        \* [travellink, amadeus, aviationstack]: the enabled flags
  USE_MOCK_FLIGHTS,  \* process.env.USE_MOCK_FLIGHTS === 'true'
  pc,                \* position of the search call: idle, waiting, done
  task,              \* per provider: off (not started), pending, settled
  raised,            \* per provider: its exchange failed in this search
  results,           \* const results = [] of searchFlightsMultiAPI
  errors,            \* const errors = [] of searchFlightsMultiAPI
  resultado,         \* what searchFlightsMultiAPI returned
  ret,               \* how searchFlights ended: [kind, voos, error]
  asked,             \* per provider: how often its adapter was called in this search
  nfFlight,          \* the record handed to normalizeFlight
  nfSource,          \* its source tag
  nfOut,             \* <<>>, or the normalized flight in a 1-tuple
  cbPc,              \* position of confirmMultipleFlightPrices: idle, waiting, done, thrown
  cbInput,           \* its argument: [isArray, offers]
  cbTask,            \* one record per started confirmFlightPrice: [pc, preco, id]
  netCalls,          \* the network calls issued: [kind, index], index the offer's position
  cbRet,             \* the list confirmMultipleFlightPrices returned
  tokenCache,        \* amadeusToken / amadeusTokenExpiry: empty, fresh or stale
  cpPc,              \* position of one confirmFlightPrice call: idle, auth, pricing, done
  cpOffer,           \* its argument
  cpCause,           \* what went wrong for it in the world, "" when nothing did
  cpOut,             \* how it ended: the record returned or the Error thrown
  cpRequest,         \* the pricing request it posted: [endpoint, body]
  ccCity,            \* the argument of getCityCode
  ccOut,             \* what the two resolvers returned for it
  now,               \* Date.now(), in minutes
  amadeusToken,      \* the cached token (its serial number), 0 for null
  amadeusTokenExpiry, \* the instant the cache stops being used, 0 for null
  tokenFetch,        \* the fetch that filled the cache: [at, lifetime]
  tkCall,            \* per caller of getAmadeusToken: its position and outcome
  issued,            \* the number of tokens the authorization endpoint has issued
  soPc,              \* position of one searchTravelLink call: idle, creating, calling, done
  soClient,          \* what the SOAP client offers: "", async or callback
  soResultado,       \* what the availability call resolved to
  soCause,           \* what went wrong for the call, "" when nothing did
  soRet,             \* what searchTravelLink settled to
  sfPc,              \* per concurrent search call: idle, waiting, done
  sfTask,            \* per call and provider: pending or settled
  sfResults,         \* per call: its const results = []
  sfErrors,          \* per call: its const errors = []
  sfRet              \* per call: what searchFlightsMultiAPI returned

cfgVars == <<API_CONFIG, USE_MOCK_FLIGHTS>>
searchVars == <<pc, task, raised, results, errors, resultado, ret, asked>>
normVars == <<nfFlight, nfSource, nfOut>>
confirmVars == <<cbPc, cbInput, cbTask, netCalls, cbRet, tokenCache>>
priceVars == <<cpPc, cpOffer, cpCause, cpOut, cpRequest>>
cityVars == <<ccCity, ccOut>>
tokenVars == <<now, amadeusToken, amadeusTokenExpiry, tokenFetch, tkCall, issued>>
soapVars == <<soPc, soClient, soResultado, soCause, soRet>>
pairVars == <<sfPc, sfTask, sfResults, sfErrors, sfRet>>

NoResultado == [voos |-> <<>>, total |-> 0,
                fontes |-> [travellink |-> 0, amadeus |-> 0, aviationstack |-> 0],
                erros |-> <<>>]
Pending == [kind |-> "none", voos |-> <<>>, error |-> ""]
Returned(voos) == [kind |-> "list", voos |-> voos, error |-> ""]
Thrown(message) == [kind |-> "throw", voos |-> <<>>, error |-> message]

enabled(p) ==
  CASE p = "TRAVELLINK" -> API_CONFIG.travellink
    [] p = "AMADEUS" -> API_CONFIG.amadeus
    [] p = "AVIATIONSTACK" -> API_CONFIG.aviationstack

\* travellink.enabled is the literal true; the other two follow the environment.
Configs == [travellink : {TRUE}, amadeus : BOOLEAN, aviationstack : BOOLEAN]

\* ------------------------------------------- what the providers send
SeqUpTo(D, k) == UNION {[1..n -> D] : n \in 0..k}

FailureKinds == {"network", "timeout", "http", "fault"}

AmadeusOffers ==
  [ id : {Undefined, Str("1")}, total : {Undefined, Str("500")},
    carrier : {"LA"}, nseg : {1, 2}, at : {"2025-12-25T08:00:00"} ]

TravelLinkVoos ==
  [ Id : {Undefined, Str("1")}, Preco : {Num(800)},
    Companhia : {Str("LA"), Str("G3")}, DataPartida : {Str(ReqDate)},
    HoraPartida : {Str("08:00")}, Escalas : {Undefined} ]

AviationStackFlights ==
  [ airline : {Str("LATAM"), Str("Azul")}, scheduled : {Str("2025-12-25T08:00:00+00:00")} ]

Responses(D, room) ==
  {Failure(k) : k \in FailureKinds} \cup {Answer(d) : d \in SeqUpTo(D, room)}

\* ------------------------------------------- searchFlightsMultiAPI
countFonte(voos, source) == Cardinality({i \in 1..Len(voos) : voos[i].fonte = Str(source)})

\* After Promise.allSettled: deduplicate, sort, count.
searchFlightsMultiAPI(res, errs) ==
  LET uniqueFlights == sortFlights(deduplicateFlights(res))
  IN [ voos |-> uniqueFlights,
       total |-> Len(uniqueFlights),
       fontes |-> [ travellink |-> countFonte(uniqueFlights, "TRAVELLINK"),
                    amadeus |-> countFonte(uniqueFlights, "AMADEUS"),
                    aviationstack |-> countFonte(uniqueFlights, "AVIATIONSTACK") ],
       erros |-> errs ]

\* The multi-API branch of searchFlights once searchFlightsMultiAPI returned r:
\* an empty list becomes the mock list when USE_MOCK_FLIGHTS is set and is
\* returned as [] otherwise; the statistics are dropped.
searchFlights_ThrowOnEmpty(r, mock, seed) ==
  IF Len(r.voos) = 0
  THEN IF mock
       THEN Returned(generateMockFlights(ReqOrigem, ReqDestino, seed))
       ELSE Thrown("Nenhum voo encontrado para os critérios informados.")
  ELSE Returned(r.voos)

searchFlights(r, mock, seed) ==
  IF Len(r.voos) = 0
  THEN IF mock
       THEN Returned(generateMockFlights(ReqOrigem, ReqDestino, seed))
       ELSE Returned(<<>>)
  ELSE Returned(r.voos)

\* ----------------------------------------------------------- actions
InitSearch ==
  /\ API_CONFIG \in Configs
  /\ USE_MOCK_FLIGHTS \in BOOLEAN
  /\ pc = "idle"
  /\ task = [p \in Providers |-> "off"]
  /\ raised = [p \in Providers |-> FALSE]
  /\ results = <<>>
  /\ errors = <<>>
  /\ resultado = NoResultado
  /\ ret = Pending
  /\ asked = [p \in Providers |-> 0]

\* searchFlights enters its multi-API branch (useMultiAPI holds as soon as one
\* provider is enabled) and searchFlightsMultiAPI starts one task per enabled
\* provider.
StartSearch ==
  /\ pc = "idle"
  /\ \E p \in Providers : enabled(p)
  /\ pc' = "waiting"
  /\ task' = [p \in Providers |-> IF enabled(p) THEN "pending" ELSE "off"]
  /\ asked' = [p \in Providers |-> IF enabled(p) THEN 1 ELSE 0]
  /\ raised' = [p \in Providers |-> FALSE]
  /\ results' = <<>>
  /\ errors' = <<>>
  /\ resultado' = NoResultado
  /\ ret' = Pending
  /\ UNCHANGED <<cfgVars, normVars, confirmVars, priceVars, cityVars, tokenVars, soapVars, pairVars>>

\* What becomes of a provider's task once its exchange has ended: the
\* adapter returns, whatever the outcome, and is not called again.
afterOutcome_RetryOnFailure(resp) == IF resp.fail # "" THEN "pending" ELSE "settled"

afterOutcome(resp) == "settled"

\* The .then / .catch pair attached to a provider's promise.
settle(p, resp, out) ==
  /\ task' = [task EXCEPT ![p] = afterOutcome(resp)]
  /\ asked' = [asked EXCEPT ![p] = IF afterOutcome(resp) = "pending" THEN @ + 1 ELSE @]
  /\ raised' = [raised EXCEPT ![p] = resp.fail # ""]
  /\ IF out.rejected
     THEN /\ errors' = Append(errors, [source |-> p, error |-> out.message])
          /\ UNCHANGED results
     ELSE /\ results' = results \o out.flights
          /\ UNCHANGED errors
  /\ UNCHANGED <<pc, resultado, ret>>
  /\ UNCHANGED <<cfgVars, normVars, confirmVars, priceVars, cityVars, tokenVars, soapVars, pairVars>>

\* The room left for a response of at most `most` offers.
room(most) == IF most < MaxResults - Len(results) THEN most ELSE MaxResults - Len(results)

\* A provider's exchange ends, with at most `most` offers in its answer.
TravelLinkSettlesWith(most) ==
  /\ pc = "waiting" /\ task["TRAVELLINK"] = "pending"
  /\ \E resp \in Responses(TravelLinkVoos, room(most)) :
       settle("TRAVELLINK", resp, searchTravelLink(API_CONFIG.travellink, resp))

AmadeusSettlesWith(most) ==
  /\ pc = "waiting" /\ task["AMADEUS"] = "pending"
  /\ \E resp \in Responses(AmadeusOffers, room(most)) :
       settle("AMADEUS", resp, searchAmadeus(API_CONFIG.amadeus, resp))

AviationStackSettlesWith(most) ==
  /\ pc = "waiting" /\ task["AVIATIONSTACK"] = "pending"
  /\ \E resp \in Responses(AviationStackFlights, room(most)) :
       settle("AVIATIONSTACK", resp, searchAviationStack(API_CONFIG.aviationstack, resp))

TravelLinkSettles == TravelLinkSettlesWith(MaxResults)

AmadeusSettles == AmadeusSettlesWith(MaxResults)

AviationStackSettles == AviationStackSettlesWith(MaxResults)

\* await Promise.allSettled(promises): no started task is pending any more.
\* The same, waiting also for the providers that were never started.
allSettled_AllProviders(t) == \A p \in Providers : t[p] = "settled"

allSettled_FirstSettled(t) == \E p \in Providers : t[p] = "settled"

allSettled(t) == \A p \in Providers : t[p] # "pending"

\* Promise.allSettled resolves once no task is pending; searchFlightsMultiAPI
\* returns and searchFlights ends.
SearchReturns ==
  /\ pc = "waiting"
  /\ allSettled(task)
  /\ \E seed \in 0..(MockSeeds - 1) :
       LET r == searchFlightsMultiAPI(results, errors)
       IN /\ resultado' = r
          /\ ret' = searchFlights(r, USE_MOCK_FLIGHTS, seed)
  /\ pc' = "done"
  /\ UNCHANGED <<task, raised, results, errors, asked>>
  /\ UNCHANGED <<cfgVars, normVars, confirmVars, priceVars, cityVars, tokenVars, soapVars, pairVars>>

\* The caller has its answer; the service takes the next request.
NextRequest ==
  /\ pc = "done"
  /\ pc' = "idle"
  /\ task' = [p \in Providers |-> "off"]
  /\ asked' = [p \in Providers |-> 0]
  /\ raised' = [p \in Providers |-> FALSE]
  /\ results' = <<>>
  /\ errors' = <<>>
  /\ resultado' = NoResultado
  /\ ret' = Pending
  /\ UNCHANGED <<cfgVars, normVars, confirmVars, priceVars, cityVars, tokenVars, soapVars, pairVars>>


\* ------------------------------------ normalizeFlight on its own
\* The records an adapter can hand to normalizeFlight, field by field.
FlightInputs ==
  [ id : {Undefined, Str("1")},
    preco : {Undefined, Num(0), Num(800), Num(0 - 100),
             Str(""), Str("0"), Str("500"), Str("-100"), Str("abc")},
    companhia : {Str("LATAM")},
    origem : {Str(ReqOrigem)},
    destino : {Str(ReqDestino)},
    dataIda : {Str("2025-12-25T08:00:00")},
    escalasIda : {Undefined, Num(0), Num(1)},
    ida : {Undefined, Num(0), Num(1), Num(2)},
    linkReserva : {Undefined} ]

\* The three tags the adapters pass, and one that is none of them.
SourceTags == Providers \cup {"OUTRA"}

NormalizeCall ==
  /\ nfOut = <<>>
  /\ nfOut' = <<normalizeFlight(nfFlight, nfSource)>>
  /\ UNCHANGED <<nfFlight, nfSource>>
  /\ UNCHANGED <<cfgVars, searchVars, confirmVars, priceVars, cityVars, tokenVars, soapVars, pairVars>>

NormalizeNext ==
  /\ nfOut # <<>>
  /\ nfFlight' \in FlightInputs
  /\ nfSource' \in SourceTags
  /\ nfOut' = <<>>
  /\ UNCHANGED <<cfgVars, searchVars, confirmVars, priceVars, cityVars, tokenVars, soapVars, pairVars>>

\* ------------------------------- confirmMultipleFlightPrices
\* The k-th offer of a batch: an Amadeus offer with its id and price.total.
batchOffer(k) == [id |-> Str(ToString(k)), total |-> Str(IF k % 2 = 0 THEN "500" ELSE "800")]

\* null, as an element of the argument array.
Null == [t |-> "null", n |-> 0, s |-> ""]

\* Where a batch may hold null instead of an offer: nowhere (0), or at 2.
NullPositions == {0, 2}

\* The arguments of confirmMultipleFlightPrices: something that is no array,
\* or an array of 0..MaxBatch offers, possibly with a null among them.
BatchInputs ==
  {[isArray |-> FALSE, offers |-> <<>>]}
    \cup UNION { {[isArray |-> TRUE,
                   offers |-> [k \in 1..n |-> IF k = z THEN Null ELSE batchOffer(k)]] :
                     z \in {y \in NullPositions : y <= n}} : n \in 0..MaxBatch }

\* flightOffers.slice(0, 5)
offersToConfirm_All(flightOffers) == flightOffers

offersToConfirm(flightOffers) ==
  SubSeq(flightOffers, 1, IF Len(flightOffers) < BatchLimit THEN Len(flightOffers) ELSE BatchLimit)

\* Replies of the pricing endpoint: 200 with the confirmed price.total (or
\* without one), 200 without any flightOffers, an HTTP error, no answer.
PricingReplies ==
  {[kind |-> "ok", total |-> t] : t \in {Undefined, Str("900")}}
    \cup {[kind |-> k, total |-> Undefined] : k \in {"empty", "http400", "http404", "http429", "network"}}

\* Replies of the authorization endpoint.
AuthReplies == {"ok", "http401", "network", "timeout"}

\* confirmFlightPrice once it holds a token: console.log reads flightOffer.id,
\* which throws a TypeError on null; the catch block rethrows it and the task
\* fails before any pricing request.  Any other offer is posted for pricing.
afterToken(flightOffer) == IF flightOffer = Null THEN "failed" ELSE "pricing"

\* The first step of a started confirmFlightPrice.
firstStep(flightOffer, amadeusEnabled, cache) ==
  IF ~amadeusEnabled THEN "failed"
  ELSE IF cache = "fresh" THEN afterToken(flightOffer)
  ELSE "auth"

\* A task that has not answered: no confirmed offer yet.
NoReply == [pc |-> "", preco |-> Undefined, id |-> Undefined]

\* confirmMultipleFlightPrices up to Promise.allSettled.  Each started
\* confirmFlightPrice throws at once when Amadeus is not configured; else it
\* calls getAmadeusToken, which returns the cached token while it is fresh and
\* posts to the authorization endpoint otherwise; with a token in hand the
\* pricing request is posted.
ConfirmBatchStart ==
  /\ cbPc = "idle"
  /\ \E input \in BatchInputs :
       LET selected == IF input.isArray THEN offersToConfirm(input.offers) ELSE <<>>
           first(i) == firstStep(selected[i], API_CONFIG.amadeus, tokenCache)
       IN /\ cbInput' = input
          /\ cbTask' = [i \in 1..Len(selected) |-> [NoReply EXCEPT !.pc = first(i)]]
          /\ netCalls' = {[kind |-> first(i), index |-> i] :
                            i \in {j \in 1..Len(selected) : first(j) # "failed"}}
  /\ cbPc' = "waiting"
  /\ cbRet' = <<>>
  /\ UNCHANGED tokenCache
  /\ UNCHANGED <<cfgVars, searchVars, normVars, priceVars, cityVars, tokenVars, soapVars, pairVars>>

\* The authorization endpoint answers task i: a token is cached and the
\* pricing request goes out, or getAmadeusToken rethrows and the task fails.
AuthResponds(i) ==
  /\ cbPc = "waiting" /\ i \in 1..Len(cbTask) /\ cbTask[i].pc = "auth"
  /\ \E reply \in AuthReplies :
       IF reply = "ok"
       THEN /\ tokenCache' = "fresh"
            /\ cbTask' = [cbTask EXCEPT ![i].pc = afterToken(cbInput.offers[i])]
            /\ netCalls' = netCalls \cup
                 (IF afterToken(cbInput.offers[i]) = "pricing"
                  THEN {[kind |-> "pricing", index |-> i]} ELSE {})
       ELSE /\ cbTask' = [cbTask EXCEPT ![i].pc = "failed"]
            /\ UNCHANGED <<tokenCache, netCalls>>
  /\ UNCHANGED <<cbPc, cbInput, cbRet>>
  /\ UNCHANGED <<cfgVars, searchVars, normVars, priceVars, cityVars, tokenVars, soapVars, pairVars>>

\* The pricing endpoint answers task i; a priced offer comes back under the
\* id it was sent with.
PricingResponds(i) ==
  /\ cbPc = "waiting" /\ i \in 1..Len(cbTask) /\ cbTask[i].pc = "pricing"
  /\ \E reply \in PricingReplies :
       IF reply.kind = "ok"
       THEN cbTask' = [cbTask EXCEPT ![i] =
                         [pc |-> "ok",
                          preco |-> OrElse(reply.total, cbInput.offers[i].total),
                          id |-> cbInput.offers[i].id]]
       ELSE cbTask' = [cbTask EXCEPT ![i].pc = "failed"]
  /\ UNCHANGED <<cbPc, cbInput, netCalls, cbRet, tokenCache>>
  /\ UNCHANGED <<cfgVars, searchVars, normVars, priceVars, cityVars, tokenVars, soapVars, pairVars>>

\* result.status === 'fulfilled' && result.value.success
isConfirmed_Always(t) == TRUE

isConfirmed(t) == t.pc = "ok"

\* The element pushed for position index: the offer itself, the record its
\* own confirmation returned, and its own price.total.
confirmedEntry_FirstOffer(flightOffers, t, index) ==
  [ id |-> flightOffers[index].id,
    precoConfirmado |-> [id |-> t.id, preco |-> t.preco],
    precoOriginal |-> flightOffers[1].total ]

confirmedEntry(flightOffers, t, index) ==
  [ id |-> flightOffers[index].id,
    precoConfirmado |-> [id |-> t.id, preco |-> t.preco],
    precoOriginal |-> flightOffers[index].total ]

\* flightOffers[index].price?.total throws a TypeError when the element at
\* index is null.
forEachThrows(flightOffers, tasks) ==
  \E index \in 1..Len(tasks) : isConfirmed(tasks[index]) /\ flightOffers[index] = Null

\* results.forEach after Promise.allSettled: the confirmed offers, in order.
RECURSIVE confirmedOf(_, _, _)
confirmedOf(flightOffers, tasks, index) ==
  IF index > Len(tasks) THEN <<>>
  ELSE (IF isConfirmed(tasks[index])
        THEN << confirmedEntry(flightOffers, tasks[index], index) >>
        ELSE <<>>)
       \o confirmedOf(flightOffers, tasks, index + 1)

\* Promise.allSettled resolves; the call ends by returning the list, or by an
\* exception of the forEach callback (cbPc "thrown").
ConfirmBatchReturns ==
  /\ cbPc = "waiting"
  /\ \A i \in 1..Len(cbTask) : cbTask[i].pc \in {"ok", "failed"}
  /\ IF forEachThrows(cbInput.offers, cbTask)
     THEN cbRet' = <<>> /\ cbPc' = "thrown"
     ELSE cbRet' = confirmedOf(cbInput.offers, cbTask, 1) /\ cbPc' = "done"
  /\ UNCHANGED <<cbInput, cbTask, netCalls, tokenCache>>
  /\ UNCHANGED <<cfgVars, searchVars, normVars, priceVars, cityVars, tokenVars, soapVars, pairVars>>

\* The caller has its list; the next batch may come.
ConfirmBatchNext ==
  /\ cbPc \in {"done", "thrown"}
  /\ cbPc' = "idle"
  /\ cbInput' = [isArray |-> TRUE, offers |-> <<>>]
  /\ cbTask' = <<>>
  /\ netCalls' = {}
  /\ cbRet' = <<>>
  /\ UNCHANGED tokenCache
  /\ UNCHANGED <<cfgVars, searchVars, normVars, priceVars, cityVars, tokenVars, soapVars, pairVars>>

\* Time passes amadeusTokenExpiry.
TokenExpires ==
  /\ tokenCache = "fresh"
  /\ tokenCache' = "stale"
  /\ UNCHANGED <<cbPc, cbInput, cbTask, netCalls, cbRet>>
  /\ UNCHANGED <<cfgVars, searchVars, normVars, priceVars, cityVars, tokenVars, soapVars, pairVars>>

\* ------------------------------------------ confirmFlightPrice, one call
\* How a call ends.
NotEnded == [kind |-> "none", thrownAt |-> 0, message |-> "", preco |-> Undefined]
Confirmed(preco) == [kind |-> "return", thrownAt |-> 0, message |-> "", preco |-> preco]
\* new Error(message), thrown by the statement at source line thrownAt.
ErrorAt(line, message) == [kind |-> "throw", thrownAt |-> line, message |-> message, preco |-> Undefined]

\* What the catch block sees: error.response?.status (0 when the error has
\* no response), error.response?.data?.errors?.[0]?.detail, error.message.
Caught(status, detail, message) == [status |-> status, detail |-> detail, message |-> message]
HttpError(status, detail) ==
  Caught(status, detail, "Request failed with status code " \o ToString(status))

\* The catch block of confirmFlightPrice.
confirmPriceCatch(error) ==
  IF error.status = 400
  THEN ErrorAt(798, "Erro ao confirmar preço: "
                      \o OrElse(error.detail, Str("Parâmetros inválidos")).s)
  ELSE IF error.status = 404
  THEN ErrorAt(800, "Oferta de voo não encontrada ou expirada")
  ELSE IF error.status = 429
  THEN ErrorAt(802, "Limite de requisições excedido. Tente novamente mais tarde.")
  ELSE ErrorAt(805, "Erro ao confirmar preço: " \o error.message)

\* The failures of the token exchange, as getAmadeusToken rethrows them.
TokenFailures ==
  [ http401 |-> HttpError(401, Undefined),
    network |-> Caught(0, Undefined, "Network Error"),
    timeout |-> Caught(0, Undefined, "timeout of 10000ms exceeded") ]

\* The failures of the pricing request, by cause.
PricingFailures ==
  [ pricing400 |-> {HttpError(400, Undefined), HttpError(400, Str("INVALID DATA RECEIVED"))},
    pricing404 |-> {HttpError(404, Undefined)},
    pricing429 |-> {HttpError(429, Undefined)},
    pricing500 |-> {HttpError(500, Undefined)},
    network |-> {Caught(0, Undefined, "Network Error")},
    timeout |-> {Caught(0, Undefined, "timeout of 20000ms exceeded")},
    empty |-> {Caught(0, Undefined, "Nenhuma oferta de preço confirmada retornada")} ]

\* Reading flightOffer.id of null.
NullOfferError == Caught(0, Undefined, "Cannot read properties of null (reading 'id')")

\* An offer as search returns it, handed over for confirmation: its id, its
\* fonte and the _originalOffer normalizeFlight kept (undefined when the
\* adapter set none); a normalized offer has no price.total.
searchOffer(flight, original) ==
  [id |-> flight.id, total |-> Undefined, fonte |-> flight.fonte, originalOffer |-> original]

SearchOffers ==
  {searchOffer(formatAmadeusOffer(o, 0), o) : o \in {a \in AmadeusOffers : a.nseg = 1}}
    \cup {searchOffer(formatarVooTravelLink(v, ReqOrigem, ReqDestino, 0), v) : v \in TravelLinkVoos}
    \cup {searchOffer(formatAviationStackFlight(f, ReqOrigem, ReqDestino, 0), Undefined)
            : f \in AviationStackFlights}

\* No pricing request yet.
NoRequest == [endpoint |-> "", body |-> Undefined]

\* axios.post(`${apiBaseUrl}/v1/shopping/flight-offers-pricing`,
\*            { data: { type: 'flight-offers-pricing', flightOffers: [flightOffer] } })
\* with apiBaseUrl one of the two Amadeus hosts.
pricingRequest(flightOffer) == [endpoint |-> "AMADEUS", body |-> flightOffer]

\* The offers handed to one call: with a price.total, without one, or null.
PriceOffers ==
  {batchOffer(1), batchOffer(2), [id |-> Str("3"), total |-> Undefined], Null}
    \cup SearchOffers

\* With a token in hand: the TypeError of a null offer, or the pricing request.
confirmPriceAfterToken ==
  IF afterToken(cpOffer) = "failed"
  THEN /\ cpPc' = "done"
       /\ cpCause' = "offer"
       /\ cpOut' = confirmPriceCatch(NullOfferError)
       /\ UNCHANGED cpRequest
  ELSE /\ cpPc' = "pricing"
       /\ cpRequest' = pricingRequest(cpOffer)
       /\ UNCHANGED <<cpCause, cpOut>>

\* confirmFlightPrice(flightOffer) up to its first await.
ConfirmPriceStart ==
  /\ cpPc = "idle"
  /\ \E offer \in PriceOffers :
       /\ cpOffer' = offer
       /\ IF ~API_CONFIG.amadeus
          THEN /\ cpPc' = "done"
               /\ cpCause' = "disabled"
               /\ cpOut' = ErrorAt(730, "API Amadeus não configurada")
               /\ UNCHANGED cpRequest
          ELSE IF tokenCache = "fresh"
          THEN IF afterToken(offer) = "failed"
               THEN /\ cpPc' = "done"
                    /\ cpCause' = "offer"
                    /\ cpOut' = confirmPriceCatch(NullOfferError)
                    /\ UNCHANGED cpRequest
               ELSE /\ cpPc' = "pricing"
                    /\ cpCause' = ""
                    /\ cpOut' = NotEnded
                    /\ cpRequest' = pricingRequest(offer)
          ELSE /\ cpPc' = "auth"
               /\ cpCause' = ""
               /\ cpOut' = NotEnded
               /\ UNCHANGED cpRequest
  /\ UNCHANGED <<cbPc, cbInput, cbTask, netCalls, cbRet, tokenCache>>
  /\ UNCHANGED <<cfgVars, searchVars, normVars, cityVars, tokenVars, soapVars, pairVars>>

\* The authorization endpoint answers the call.
ConfirmPriceAuthResponds ==
  /\ cpPc = "auth"
  /\ \E reply \in AuthReplies :
       IF reply = "ok"
       THEN /\ tokenCache' = "fresh"
            /\ confirmPriceAfterToken
       ELSE /\ cpPc' = "done"
            /\ cpCause' = "token-" \o reply
            /\ cpOut' = confirmPriceCatch(TokenFailures[reply])
            /\ UNCHANGED <<tokenCache, cpRequest>>
  /\ UNCHANGED cpOffer
  /\ UNCHANGED <<cbPc, cbInput, cbTask, netCalls, cbRet>>
  /\ UNCHANGED <<cfgVars, searchVars, normVars, cityVars, tokenVars, soapVars, pairVars>>

\* The pricing endpoint answers the call.
ConfirmPricePricingResponds ==
  /\ cpPc = "pricing"
  /\ \/ \E total \in {Undefined, Str("900")} :
          /\ cpCause' = ""
          /\ cpOut' = Confirmed(OrElse(total, cpOffer.total))
     \/ \E cause \in DOMAIN PricingFailures : \E error \in PricingFailures[cause] :
          /\ cpCause' = cause
          /\ cpOut' = confirmPriceCatch(error)
  /\ cpPc' = "done"
  /\ UNCHANGED <<cpOffer, cpRequest>>
  /\ UNCHANGED <<cbPc, cbInput, cbTask, netCalls, cbRet, tokenCache>>
  /\ UNCHANGED <<cfgVars, searchVars, normVars, cityVars, tokenVars, soapVars, pairVars>>

\* The caller has its answer; the next call may come.
ConfirmPriceNext ==
  /\ cpPc = "done"
  /\ cpPc' = "idle"
  /\ cpCause' = ""
  /\ cpOut' = NotEnded
  /\ cpRequest' = NoRequest
  /\ UNCHANGED cpOffer
  /\ UNCHANGED <<cbPc, cbInput, cbTask, netCalls, cbRet, tokenCache>>
  /\ UNCHANGED <<cfgVars, searchVars, normVars, cityVars, tokenVars, soapVars, pairVars>>

\* ------------------------------------------------------- getCityCode
\* A string is the sequence of its characters.
LowerChars ==
  <<"a", "b", "c", "d", "e", "f", "g", "h", "i", "j", "k", "l", "m", "n", "o", "p", "q", "r", "s", "t", "u", "v", "w", "x", "y", "z", "á", "â", "ã", "é", "í", "ó">>
UpperChars ==
  <<"A", "B", "C", "D", "E", "F", "G", "H", "I", "J", "K", "L", "M", "N", "O", "P", "Q", "R", "S", "T", "U", "V", "W", "X", "Y", "Z", "Á", "Â", "Ã", "É", "Í", "Ó">>
AsciiLetters == {LowerChars[i] : i \in 1..26} \cup {UpperChars[i] : i \in 1..26}
\* \w of a regular expression.
WordChars == AsciiLetters \cup {"0", "1", "2", "3", "4", "5", "6", "7", "8", "9", "_"}

upperChar(c) ==
  IF \E i \in 1..Len(LowerChars) : LowerChars[i] = c
  THEN UpperChars[CHOOSE i \in 1..Len(LowerChars) : LowerChars[i] = c]
  ELSE c
lowerChar(c) ==
  IF \E i \in 1..Len(UpperChars) : UpperChars[i] = c
  THEN LowerChars[CHOOSE i \in 1..Len(UpperChars) : UpperChars[i] = c]
  ELSE c
toUpperCase(str) == [i \in 1..Len(str) |-> upperChar(str[i])]
toLowerCase(str) == [i \in 1..Len(str) |-> lowerChar(str[i])]

RECURSIVE trimStart(_)
trimStart(str) ==
  IF str # <<>> /\ Head(str) = " " THEN trimStart(Tail(str)) ELSE str
RECURSIVE trimEnd(_)
trimEnd(str) ==
  IF str # <<>> /\ str[Len(str)] = " " THEN trimEnd(SubSeq(str, 1, Len(str) - 1)) ELSE str
trim(str) == trimEnd(trimStart(str))

\* str.substring(0, 3)
substring3(str) == SubSeq(str, 1, IF Len(str) < 3 THEN Len(str) ELSE 3)

\* /^[A-Z]{3}$/.test(str)
isThreeCapitals(str) ==
  Len(str) = 3 /\ \A i \in 1..3 : str[i] \in {UpperChars[k] : k \in 1..26}

\* cityMap[key]: the code, or <<>> for undefined.
lookup(map, key) ==
  IF \E e \in map : e[1] = key THEN (CHOOSE e \in map : e[1] = key)[2] ELSE <<>>

\* The table of the multi-API module.
cityMap ==
  { <<<<"s", "ã", "o", " ", "p", "a", "u", "l", "o">>, <<"S", "A", "O">>>>,
    <<<<"s", "a", "o", " ", "p", "a", "u", "l", "o">>, <<"S", "A", "O">>>>,
    <<<<"r", "i", "o", " ", "d", "e", " ", "j", "a", "n", "e", "i", "r", "o">>, <<"R", "I", "O">>>>,
    <<<<"r", "i", "o">>, <<"R", "I", "O">>>>,
    <<<<"b", "r", "a", "s", "í", "l", "i", "a">>, <<"B", "S", "B">>>>,
    <<<<"b", "r", "a", "s", "i", "l", "i", "a">>, <<"B", "S", "B">>>>,
    <<<<"s", "a", "l", "v", "a", "d", "o", "r">>, <<"S", "S", "A">>>>,
    <<<<"f", "o", "r", "t", "a", "l", "e", "z", "a">>, <<"F", "O", "R">>>>,
    <<<<"b", "e", "l", "o", " ", "h", "o", "r", "i", "z", "o", "n", "t", "e">>, <<"C", "N", "F">>>>,
    <<<<"m", "a", "n", "a", "u", "s">>, <<"M", "A", "O">>>>,
    <<<<"c", "u", "r", "i", "t", "i", "b", "a">>, <<"C", "W", "B">>>>,
    <<<<"p", "o", "r", "t", "o", " ", "a", "l", "e", "g", "r", "e">>, <<"P", "O", "A">>>>,
    <<<<"r", "e", "c", "i", "f", "e">>, <<"R", "E", "C">>>>,
    <<<<"b", "e", "l", "é", "m">>, <<"B", "E", "L">>>>,
    <<<<"b", "e", "l", "e", "m">>, <<"B", "E", "L">>>>,
    <<<<"g", "o", "i", "â", "n", "i", "a">>, <<"G", "Y", "N">>>>,
    <<<<"g", "o", "i", "a", "n", "i", "a">>, <<"G", "Y", "N">>>>,
    <<<<"v", "i", "t", "ó", "r", "i", "a">>, <<"V", "I", "X">>>>,
    <<<<"v", "i", "t", "o", "r", "i", "a">>, <<"V", "I", "X">>>>,
    <<<<"f", "l", "o", "r", "i", "a", "n", "ó", "p", "o", "l", "i", "s">>, <<"F", "L", "N">>>>,
    <<<<"f", "l", "o", "r", "i", "a", "n", "o", "p", "o", "l", "i", "s">>, <<"F", "L", "N">>>>,
    <<<<"c", "a", "m", "p", "i", "n", "a", "s">>, <<"V", "C", "P">>>>,
    <<<<"g", "u", "a", "r", "u", "l", "h", "o", "s">>, <<"G", "R", "U">>>>,
    <<<<"c", "o", "n", "g", "o", "n", "h", "a", "s">>, <<"C", "G", "H">>>>,
    <<<<"s", "a", "n", "t", "o", "s", " ", "d", "u", "m", "o", "n", "t">>, <<"S", "D", "U">>>> }

\* getCityCode of the multi-API module, as the adapters call it.
getCityCode(city) ==
  IF isThreeCapitals(toUpperCase(trim(city)))
  THEN toUpperCase(trim(city))
  ELSE LET normalized == trim(toLowerCase(city))
       IN IF lookup(cityMap, normalized) # <<>>
          THEN lookup(cityMap, normalized)
          ELSE toUpperCase(substring3(city))

\* The table of the flight-search service.
cityMap_FlightsService ==
  { <<<<"s", "ã", "o", " ", "p", "a", "u", "l", "o">>, <<"S", "A", "O">>>>,
    <<<<"s", "a", "o", " ", "p", "a", "u", "l", "o">>, <<"S", "A", "O">>>>,
    <<<<"r", "i", "o", " ", "d", "e", " ", "j", "a", "n", "e", "i", "r", "o">>, <<"R", "I", "O">>>>,
    <<<<"r", "i", "o">>, <<"R", "I", "O">>>>,
    <<<<"b", "r", "a", "s", "í", "l", "i", "a">>, <<"B", "S", "B">>>>,
    <<<<"b", "r", "a", "s", "i", "l", "i", "a">>, <<"B", "S", "B">>>>,
    <<<<"s", "a", "l", "v", "a", "d", "o", "r">>, <<"S", "S", "A">>>>,
    <<<<"f", "o", "r", "t", "a", "l", "e", "z", "a">>, <<"F", "O", "R">>>>,
    <<<<"b", "e", "l", "o", " ", "h", "o", "r", "i", "z", "o", "n", "t", "e">>, <<"C", "N", "F">>>>,
    <<<<"m", "a", "n", "a", "u", "s">>, <<"M", "A", "O">>>>,
    <<<<"c", "u", "r", "i", "t", "i", "b", "a">>, <<"C", "W", "B">>>>,
    <<<<"p", "o", "r", "t", "o", " ", "a", "l", "e", "g", "r", "e">>, <<"P", "O", "A">>>>,
    <<<<"r", "e", "c", "i", "f", "e">>, <<"R", "E", "C">>>>,
    <<<<"b", "e", "l", "é", "m">>, <<"B", "E", "L">>>>,
    <<<<"b", "e", "l", "e", "m">>, <<"B", "E", "L">>>>,
    <<<<"g", "o", "i", "â", "n", "i", "a">>, <<"G", "Y", "N">>>>,
    <<<<"g", "o", "i", "a", "n", "i", "a">>, <<"G", "Y", "N">>>>,
    <<<<"v", "i", "t", "ó", "r", "i", "a">>, <<"V", "I", "X">>>>,
    <<<<"v", "i", "t", "o", "r", "i", "a">>, <<"V", "I", "X">>>>,
    <<<<"f", "l", "o", "r", "i", "a", "n", "ó", "p", "o", "l", "i", "s">>, <<"F", "L", "N">>>>,
    <<<<"f", "l", "o", "r", "i", "a", "n", "o", "p", "o", "l", "i", "s">>, <<"F", "L", "N">>>>,
    <<<<"c", "a", "m", "p", "i", "n", "a", "s">>, <<"V", "C", "P">>>>,
    <<<<"g", "u", "a", "r", "u", "l", "h", "o", "s">>, <<"G", "R", "U">>>>,
    <<<<"c", "o", "n", "g", "o", "n", "h", "a", "s">>, <<"C", "G", "H">>>>,
    <<<<"s", "a", "n", "t", "o", "s", " ", "d", "u", "m", "o", "n", "t">>, <<"S", "D", "U">>>>,
    <<<<"r", "o", "m", "a">>, <<"F", "C", "O">>>>,
    <<<<"r", "o", "m", "e">>, <<"F", "C", "O">>>>,
    <<<<"p", "a", "r", "i", "s">>, <<"C", "D", "G">>>>,
    <<<<"l", "o", "n", "d", "r", "e", "s">>, <<"L", "H", "R">>>>,
    <<<<"l", "o", "n", "d", "o", "n">>, <<"L", "H", "R">>>>,
    <<<<"n", "o", "v", "a", " ", "y", "o", "r", "k">>, <<"J", "F", "K">>>>,
    <<<<"n", "e", "w", " ", "y", "o", "r", "k">>, <<"J", "F", "K">>>>,
    <<<<"m", "i", "a", "m", "i">>, <<"M", "I", "A">>>>,
    <<<<"o", "r", "l", "a", "n", "d", "o">>, <<"M", "C", "O">>>>,
    <<<<"l", "i", "s", "b", "o", "a">>, <<"L", "I", "S">>>>,
    <<<<"l", "i", "s", "b", "o", "n">>, <<"L", "I", "S">>>>,
    <<<<"m", "a", "d", "r", "i", "d">>, <<"M", "A", "D">>>>,
    <<<<"b", "a", "r", "c", "e", "l", "o", "n", "a">>, <<"B", "C", "N">>>>,
    <<<<"a", "m", "s", "t", "e", "r", "d", "a", "m">>, <<"A", "M", "S">>>>,
    <<<<"f", "r", "a", "n", "k", "f", "u", "r", "t">>, <<"F", "R", "A">>>>,
    <<<<"m", "u", "n", "i", "q", "u", "e">>, <<"M", "U", "C">>>>,
    <<<<"m", "u", "n", "i", "c", "h">>, <<"M", "U", "C">>>>,
    <<<<"z", "u", "r", "i", "c", "h">>, <<"Z", "R", "H">>>>,
    <<<<"v", "i", "e", "n", "a">>, <<"V", "I", "E">>>>,
    <<<<"v", "i", "e", "n", "n", "a">>, <<"V", "I", "E">>>>,
    <<<<"a", "t", "e", "n", "a", "s">>, <<"A", "T", "H">>>>,
    <<<<"a", "t", "h", "e", "n", "s">>, <<"A", "T", "H">>>>,
    <<<<"d", "u", "b", "a", "i">>, <<"D", "X", "B">>>>,
    <<<<"d", "o", "h", "a">>, <<"D", "O", "H">>>>,
    <<<<"s", "i", "n", "g", "a", "p", "u", "r", "a">>, <<"S", "I", "N">>>>,
    <<<<"s", "i", "n", "g", "a", "p", "o", "r", "e">>, <<"S", "I", "N">>>>,
    <<<<"t", "o", "k", "y", "o">>, <<"N", "R", "T">>>>,
    <<<<"h", "o", "n", "g", " ", "k", "o", "n", "g">>, <<"H", "K", "G">>>>,
    <<<<"s", "y", "d", "n", "e", "y">>, <<"S", "Y", "D">>>>,
    <<<<"m", "e", "l", "b", "o", "u", "r", "n", "e">>, <<"M", "E", "L">>>>,
    <<<<"b", "u", "e", "n", "o", "s", " ", "a", "i", "r", "e", "s">>, <<"E", "Z", "E">>>>,
    <<<<"s", "a", "n", "t", "i", "a", "g", "o">>, <<"S", "C", "L">>>>,
    <<<<"l", "i", "m", "a">>, <<"L", "I", "M">>>>,
    <<<<"b", "o", "g", "o", "t", "á">>, <<"B", "O", "G">>>>,
    <<<<"b", "o", "g", "o", "t", "a">>, <<"B", "O", "G">>>>,
    <<<<"c", "i", "d", "a", "d", "e", " ", "d", "o", " ", "m", "é", "x", "i", "c", "o">>, <<"M", "E", "X">>>>,
    <<<<"m", "e", "x", "i", "c", "o", " ", "c", "i", "t", "y">>, <<"M", "E", "X">>>> }

\* city.match(/\b([A-Z]{3})\b/i): the positions where three ASCII letters
\* stand between two word boundaries; the match is the leftmost.
tokenStarts(city) ==
  { i \in 1..(Len(city) - 2) :
      /\ \A k \in i..(i + 2) : city[k] \in AsciiLetters
      /\ (i = 1 \/ city[i - 1] \notin WordChars)
      /\ (i + 2 = Len(city) \/ city[i + 3] \notin WordChars) }
firstToken(city) ==
  LET i == CHOOSE k \in tokenStarts(city) : \A m \in tokenStarts(city) : k <= m
  IN SubSeq(city, i, i + 2)

\* getCityCode of the flight-search service.
getCityCode_FlightsService(city) ==
  IF isThreeCapitals(toUpperCase(trim(city)))
  THEN toUpperCase(trim(city))
  ELSE LET normalized == trim(toLowerCase(city))
           code == lookup(cityMap_FlightsService, normalized)
       IN IF code # <<>> THEN code
          ELSE IF tokenStarts(city) # {} THEN toUpperCase(firstToken(city))
          ELSE toUpperCase(substring3(city))

\* The inputs: the names below, and every string of up to MaxCityLen
\* characters over CityAlphabet.
CityAlphabet == {"r", "i", "O", " ", "ã"}
NamedCities ==
  { <<"R", "I", "O">>,
    <<"r", "i", "o">>,
    <<" ", "r", "i", "o", " ">>,
    <<"S", "ã", "o", " ", "P", "a", "u", "l", "o">>,
    <<"s", "a", "o", " ", "p", "a", "u", "l", "o">>,
    <<"S", "Ã", "O", " ", "P", "A", "U", "L", "O">>,
    <<"U", "n", "k", "n", "o", "w", "n", " ", "C", "i", "t", "y">>,
    <<"A", "e", "r", "o", "p", "o", "r", "t", "o", " ", "G", "R", "U">>,
    <<"G", "R", "U", " ", "a", "i", "r", "p", "o", "r", "t">>,
    <<"P", "a", "r", "i", "s">>,
    <<"s", "ã", "o">>,
    <<"B", "e", "l", "é", "m">>,
    <<"a", "b">>,
    <<"a">>,
    <<>>,
    <<" ", "x", "y">>,
    <<"R", "i", "o", " ", "d", "e", " ", "J", "a", "n", "e", "i", "r", "o">>,
    <<"s", "a", "n", "t", "o", "s", " ", "d", "u", "m", "o", "n", "t">> }
CityInputs == NamedCities \cup SeqUpTo(CityAlphabet, MaxCityLen)

NotResolved == [multiAPI |-> <<"?">>, flightsService |-> <<"?">>, done |-> FALSE]

\* One call of each resolver on the same input.
ResolveCity ==
  /\ ~ccOut.done
  /\ ccOut' = [ multiAPI |-> getCityCode(ccCity),
                flightsService |-> getCityCode_FlightsService(ccCity),
                done |-> TRUE ]
  /\ UNCHANGED ccCity
  /\ UNCHANGED <<cfgVars, searchVars, normVars, confirmVars, priceVars, tokenVars, soapVars, pairVars>>

NextCity ==
  /\ ccOut.done
  /\ ccCity' \in CityInputs
  /\ ccOut' = NotResolved
  /\ UNCHANGED <<cfgVars, searchVars, normVars, confirmVars, priceVars, tokenVars, soapVars, pairVars>>

\* -------------------------------------------------- getAmadeusToken
\* Time is counted in minutes.  A token is known by its serial number.
Callers == {1, 2}
\* response.data.expires_in, in minutes.
Lifetimes == {1, 2, 3}

NoFetch == [at |-> 0, lifetime |-> 0, token |-> 0]
IdleCall == [pc |-> "idle", how |-> "", at |-> 0, token |-> 0, seen |-> NoFetch, calls |-> 0]

\* amadeusToken && amadeusTokenExpiry && Date.now() < amadeusTokenExpiry
cacheIsFresh(token, expiry, t) == token # 0 /\ expiry # 0 /\ t < expiry

\* Date.now() + (response.data.expires_in * 1000) - 60000
tokenExpiry_NoMargin(at, expires_in) == at + expires_in

tokenExpiry(at, expires_in) == at + expires_in - Margin

\* getAmadeusToken up to its return or its await: the cached token is
\* returned, or the request to the authorization endpoint goes out.
TokenRequest(c) ==
  /\ tkCall[c].pc = "idle"
  /\ tkCall' = [tkCall EXCEPT ![c] =
       IF cacheIsFresh(amadeusToken, amadeusTokenExpiry, now)
       THEN [pc |-> "done", how |-> "cached", at |-> now, token |-> amadeusToken,
             seen |-> tokenFetch, calls |-> 0]
       ELSE [pc |-> "fetching", how |-> "", at |-> now, token |-> 0,
             seen |-> tokenFetch, calls |-> 1]]
  /\ UNCHANGED <<now, amadeusToken, amadeusTokenExpiry, tokenFetch, issued>>
  /\ UNCHANGED <<cfgVars, searchVars, normVars, confirmVars, priceVars, cityVars, soapVars, pairVars>>

\* amadeusToken = response.data.access_token: the answer replaces whatever
\* the cache holds.
storeToken_KeepCached(cached, access_token) ==
  IF cached # 0 THEN cached ELSE access_token

storeToken(cached, access_token) == access_token

\* The authorization endpoint answers: the token and its expiry are stored
\* and the token returned, or the error is rethrown.
TokenResponds(c) ==
  /\ tkCall[c].pc = "fetching"
  /\ \/ /\ issued < MaxTokens
        /\ \E expires_in \in Lifetimes :
             /\ amadeusTokenExpiry' = tokenExpiry(now, expires_in)
             /\ tokenFetch' = [at |-> now, lifetime |-> expires_in, token |-> issued + 1]
        /\ amadeusToken' = storeToken(amadeusToken, issued + 1)
        /\ issued' = issued + 1
        /\ tkCall' = [tkCall EXCEPT ![c].pc = "done", ![c].how = "refreshed",
                                    ![c].token = issued + 1]
     \/ /\ tkCall' = [tkCall EXCEPT ![c].pc = "done", ![c].how = "failed"]
        /\ UNCHANGED <<amadeusToken, amadeusTokenExpiry, tokenFetch, issued>>
  /\ UNCHANGED now
  /\ UNCHANGED <<cfgVars, searchVars, normVars, confirmVars, priceVars, cityVars, soapVars, pairVars>>

\* The caller goes on with what it got.
TokenCallEnds(c) ==
  /\ tkCall[c].pc = "done"
  /\ tkCall' = [tkCall EXCEPT ![c] = IdleCall]
  /\ UNCHANGED <<now, amadeusToken, amadeusTokenExpiry, tokenFetch, issued>>
  /\ UNCHANGED <<cfgVars, searchVars, normVars, confirmVars, priceVars, cityVars, soapVars, pairVars>>

\* A minute passes.
Tick ==
  /\ now < MaxClock
  /\ now' = now + 1
  /\ UNCHANGED <<amadeusToken, amadeusTokenExpiry, tokenFetch, tkCall, issued>>
  /\ UNCHANGED <<cfgVars, searchVars, normVars, confirmVars, priceVars, cityVars, soapVars, pairVars>>

\* ------------------------------------ searchTravelLink, step by step
\* A value of the availability response as the SOAP client hands it over:
\* undefined, null, a number, a string, an array, or an object.  An object
\* is known by the value of each key; a key it does not own is Undefined.
Arr(items) == [t |-> "array", items |-> items]
Obj(fields) == [t |-> "object", fields |-> fields]

\* The names the code reads on a response, on what a wrapper holds, and on a voo.
wrapperKeys_GenericFirst ==
  <<"return", "data", "DisponibilidadeResult", "disponibilidadeResult",
    "Voos", "voos", "Flights", "flights">>

wrapperKeys ==
  <<"DisponibilidadeResult", "disponibilidadeResult", "return", "data",
    "Voos", "voos", "Flights", "flights">>

listKeys == <<"Voos", "voos", "flights", "resultado", "ListaVoos", "listaVoos">>

vooKeys == {"Id", "Preco", "Companhia", "DataPartida", "HoraPartida", "Escalas"}

SoapKeys ==
  {wrapperKeys[i] : i \in 1..Len(wrapperKeys)} \cup
  {listKeys[i] : i \in 1..Len(listKeys)} \cup vooKeys

EmptyObject == Obj([k \in SoapKeys |-> Undefined])

\* { k1: v1 } and { k1: v1, k2: v2 }
With(o, k, v) == Obj([o.fields EXCEPT ![k] = v])

\* ToBoolean: every array and every object is truthy, null is falsy.
ToBoolean(v) == v.t \in {"array", "object"} \/ Truthy(v)

\* typeof v === 'object'
typeofObject(v) == v.t \in {"array", "object", "null"}

\* v[k] of a value that is neither null nor undefined
get(v, k) == IF v.t = "object" THEN v.fields[k] ELSE Undefined

\* Object.keys(v)
ObjectKeys(v) == IF v.t = "object" THEN {k \in SoapKeys : v.fields[k] # Undefined} ELSE {}

\* The if / else-if chain of processarResultadosTravelLink: the value of the
\* first key of `keys` that is truthy on the result; the result itself when
\* there is none (a bare array, or the final else).
unwrap(res, keys) ==
  LET hits == {i \in 1..Len(keys) : ToBoolean(get(res, keys[i]))}
  IN IF hits = {} THEN res
     ELSE get(res, keys[CHOOSE i \in hits : \A j \in hits : i <= j])

\* dados.Voos || dados.voos || ... || dados.listaVoos: the first truthy
\* operand, or the last one.
orChain(dados, keys) ==
  LET hits == {i \in 1..Len(keys) : ToBoolean(get(dados, keys[i]))}
  IN IF hits = {} THEN get(dados, keys[Len(keys)])
     ELSE get(dados, keys[CHOOSE i \in hits : \A j \in hits : i <= j])

\* The fields formatarVooTravelLink reads on a voo.
asVoo(v) ==
  [ Id |-> get(v, "Id"), Preco |-> get(v, "Preco"), Companhia |-> get(v, "Companhia"),
    DataPartida |-> get(v, "DataPartida"), HoraPartida |-> get(v, "HoraPartida"),
    Escalas |-> get(v, "Escalas") ]

\* forEach((voo, index) => { if (voo && typeof voo === 'object') voos.push(...) })
formatEach(items, origemCode, destinoCode) ==
  LET kept == SelectSeq([i \in 1..Len(items) |-> i],
                        LAMBDA i : ToBoolean(items[i]) /\ typeofObject(items[i]))
  IN [j \in 1..Len(kept) |->
        formatarVooTravelLink(asVoo(items[kept[j]]), origemCode, destinoCode, kept[j] - 1)]

\* What the code does with a matched wrapper that is an object without a
\* list of its own, and with an unmatched response: one voo when it owns a
\* key, nothing otherwise.
singleVoo_Never(dados, origemCode, destinoCode) == <<>>

singleVoo(dados, origemCode, destinoCode) ==
  IF ObjectKeys(dados) # {}
  THEN <<formatarVooTravelLink(asVoo(dados), origemCode, destinoCode, 0)>>
  ELSE <<>>

processarResultadosTravelLink(res, origemCode, destinoCode) ==
  LET dados == unwrap(res, wrapperKeys)
  IN IF ~ToBoolean(dados) \/ (dados.t = "array" /\ Len(dados.items) = 0) THEN <<>>
     ELSE IF dados.t = "array" THEN formatEach(dados.items, origemCode, destinoCode)
     ELSE IF dados.t = "object"
     THEN LET listaVoos == orChain(dados, listKeys)
          IN IF listaVoos.t = "array" /\ Len(listaVoos.items) > 0
             THEN formatEach(listaVoos.items, origemCode, destinoCode)
             ELSE singleVoo(dados, origemCode, destinoCode)
     ELSE <<>>

\* The responses of the model.
VooA ==
  Obj([k \in SoapKeys |->
        CASE k = "Id" -> Str("1")
          [] k = "Preco" -> Num(800)
          [] k = "Companhia" -> Str("LA")
          [] k = "DataPartida" -> Str(ReqDate)
          [] k = "HoraPartida" -> Str("08:00")
          [] OTHER -> Undefined])
VooB ==
  Obj([k \in SoapKeys |->
        CASE k = "Preco" -> Str("500")
          [] k = "Companhia" -> Str("G3")
          [] k = "Escalas" -> Num(2)
          [] OTHER -> Undefined])

\* What a key of a response may hold.
HeldValues ==
  { Null, Arr(<<>>), Arr(<<VooA>>), Arr(<<Null, VooB, Str("x")>>),
    VooB, With(EmptyObject, "Voos", Arr(<<>>)),
    With(EmptyObject, "ListaVoos", Arr(<<VooA, VooB>>)) }

\* The names a response of the model may own: two of each kind.
HeldKeys == {"DisponibilidadeResult", "return", "Voos", "flights", "resultado", "ListaVoos"}

\* The objects with exactly n of the wrapper and list names.
RECURSIVE ObjectsOf(_)
ObjectsOf(n) ==
  IF n = 0 THEN {EmptyObject}
  ELSE UNION { { With(o, k, v) : k \in HeldKeys \ ObjectKeys(o), v \in HeldValues }
               : o \in ObjectsOf(n - 1) }

\* The results with at most `most` of those names.
SoapResults(most) ==
  {Undefined, Null, Num(0), Str("OK"), VooA, With(VooB, "resultado", Arr(<<>>))}
    \cup {h \in HeldValues : h.t = "array"}
    \cup UNION {ObjectsOf(n) : n \in 0..most}

\* How the construction of the client and the availability call may fail.
ClientFailures == {"wsdl unreachable", "timeout"}
CallFailures == {"soap fault", "timeout", "callback is not a function"}

NoSoapRet == [rejected |-> FALSE, flights |-> <<>>, message |-> "pending"]

\* The outer catch of searchTravelLink: logs and returns [].
searchTravelLinkCatch_Rethrow(message) == Rejected(message)

searchTravelLinkCatch(message) == Fulfilled(<<>>)

\* err.message.includes('callback')
includesCallback(message) == message = "callback is not a function"

\* searchTravelLink up to its first await: createClientAsync is called.
SoapStart ==
  /\ soPc = "idle"
  /\ API_CONFIG.travellink
  /\ soPc' = "creating"
  /\ UNCHANGED <<soClient, soResultado, soCause, soRet>>
  /\ UNCHANGED <<cfgVars, searchVars, normVars, confirmVars, priceVars, cityVars, tokenVars, pairVars>>

\* createClientAsync settles: it rejects, or the client has
\* DisponibilidadeAsync, only Disponibilidade, or neither (the throw of
\* line 326); with an operation the availability call goes out.
SoapClientResponds ==
  /\ soPc = "creating"
  /\ \/ \E f \in ClientFailures :
          /\ soCause' = f
          /\ soRet' = searchTravelLinkCatch(f)
          /\ soPc' = "done"
          /\ UNCHANGED soClient
     \/ /\ soCause' = "no operation"
        /\ soRet' = searchTravelLinkCatch("Método Disponibilidade não encontrado na API TravelLink")
        /\ soPc' = "done"
        /\ soClient' = "none"
     \/ /\ soClient' \in {"async", "callback"}
        /\ soPc' = "calling"
        /\ UNCHANGED <<soCause, soRet>>
  /\ UNCHANGED soResultado
  /\ UNCHANGED <<cfgVars, searchVars, normVars, confirmVars, priceVars, cityVars, tokenVars, pairVars>>

\* The availability call settles.  A rejection lands in the inner catch,
\* which returns [] for a callback error and rethrows anything else to the
\* outer catch; a result is unwrapped and formatted.
SoapCallResponds ==
  /\ soPc = "calling"
  /\ \/ \E f \in CallFailures :
          /\ soCause' = f
          /\ soRet' = IF includesCallback(f) THEN Fulfilled(<<>>)
                      ELSE searchTravelLinkCatch("Erro ao buscar disponibilidade: " \o f)
          /\ UNCHANGED soResultado
     \/ \E r \in SoapResults(MaxOwnKeys) :
          /\ soResultado' = r
          /\ UNCHANGED soCause
          /\ soRet' =
               IF r.t \in {"null", "undefined"} THEN Fulfilled(<<>>)
               ELSE IF r.t = "array" /\ Len(r.items) = 0 THEN Fulfilled(<<>>)
               ELSE Fulfilled(processarResultadosTravelLink(r, ReqOrigem, ReqDestino))
  /\ soPc' = "done"
  /\ UNCHANGED soClient
  /\ UNCHANGED <<cfgVars, searchVars, normVars, confirmVars, priceVars, cityVars, tokenVars, pairVars>>

\* The next call.
SoapNext ==
  /\ soPc = "done"
  /\ soPc' = "idle"
  /\ soClient' = ""
  /\ soResultado' = Undefined
  /\ soCause' = ""
  /\ soRet' = NoSoapRet
  /\ UNCHANGED <<cfgVars, searchVars, normVars, confirmVars, priceVars, cityVars, tokenVars, pairVars>>

\* ----------------------------------- two searchFlightsMultiAPI calls
\* The calls in flight at the same time.
SearchCalls == {1, 2}

\* What each provider may answer to one request: a failure, no offer, or up
\* to PairResults times its one offer.
pairOffers(p) ==
  CASE p = "TRAVELLINK" -> {v \in TravelLinkVoos : v.Id = Str("1") /\ v.Companhia = Str("LA")}
    [] p = "AMADEUS" -> {o \in AmadeusOffers : o.id = Str("1") /\ o.total = Str("500") /\ o.nseg = 2}
    [] p = "AVIATIONSTACK" -> {f \in AviationStackFlights : f.airline = Str("Azul")}
PairResponses(p) == {Failure("timeout")} \cup {Answer(d) : d \in SeqUpTo(pairOffers(p), PairResults)}

\* The adapter of provider p on the response to its request.
adapter(p, resp) ==
  CASE p = "TRAVELLINK" -> searchTravelLink(API_CONFIG.travellink, resp)
    [] p = "AMADEUS" -> searchAmadeus(API_CONFIG.amadeus, resp)
    [] p = "AVIATIONSTACK" -> searchAviationStack(API_CONFIG.aviationstack, resp)

\* An offer, marked with the call whose request the provider answered.
answering(flight, c) ==
  [k \in DOMAIN flight \cup {"req"} |-> IF k = "req" THEN Num(c) ELSE flight[k]]
answeringAll(flights, c) == [i \in 1..Len(flights) |-> answering(flights[i], c)]

\* const results = [] and const errors = [] are created by each call: the
\* callbacks of call c push to the arrays of call c.
arraysOf_FirstCall(c) == 1

arraysOf(c) == c

NoPairRet == [voos |-> <<>>, erros |-> <<>>, concurrent |-> FALSE]

\* searchFlightsMultiAPI starts: fresh arrays, one task per enabled provider.
PairStart(c) ==
  /\ sfPc[c] = "idle"
  /\ sfPc' = [sfPc EXCEPT ![c] = "waiting"]
  /\ sfTask' = [sfTask EXCEPT ![c] = [p \in Providers |-> IF enabled(p) THEN "pending" ELSE "off"]]
  /\ sfResults' = [sfResults EXCEPT ![c] = <<>>]
  /\ sfErrors' = [sfErrors EXCEPT ![c] = <<>>]
  /\ UNCHANGED <<sfRet, confirmVars>>
  /\ UNCHANGED <<cfgVars, searchVars, normVars, priceVars, cityVars, tokenVars, soapVars>>

\* searchAmadeus of call c asks getAmadeusToken: the cached token, or a
\* token exchange whose failure ends the adapter with [].
PairAmadeusToken(c) ==
  /\ sfPc[c] = "waiting" /\ sfTask[c]["AMADEUS"] = "pending"
  /\ \/ /\ tokenCache = "fresh"
        /\ sfTask' = [sfTask EXCEPT ![c]["AMADEUS"] = "authorized"]
        /\ UNCHANGED tokenCache
     \/ /\ tokenCache # "fresh"
        /\ tokenCache' = "fresh"
        /\ sfTask' = [sfTask EXCEPT ![c]["AMADEUS"] = "authorized"]
     \/ /\ tokenCache # "fresh"
        /\ sfTask' = [sfTask EXCEPT ![c]["AMADEUS"] = "settled"]
        /\ UNCHANGED tokenCache
  /\ UNCHANGED <<sfPc, sfResults, sfErrors, sfRet>>
  /\ UNCHANGED <<cbPc, cbInput, cbTask, netCalls, cbRet>>
  /\ UNCHANGED <<cfgVars, searchVars, normVars, priceVars, cityVars, tokenVars, soapVars>>

\* The exchange of provider p for call c ends and the .then / .catch pair
\* of that call runs.
PairSettles(c, p) ==
  /\ sfPc[c] = "waiting"
  /\ sfTask[c][p] = IF p = "AMADEUS" THEN "authorized" ELSE "pending"
  /\ \E resp \in PairResponses(p) :
       LET out == adapter(p, resp)
       IN IF out.rejected
          THEN /\ sfErrors' = [sfErrors EXCEPT ![arraysOf(c)] =
                                 Append(@, [source |-> p, error |-> out.message, req |-> Num(c)])]
               /\ UNCHANGED sfResults
          ELSE /\ sfResults' = [sfResults EXCEPT ![arraysOf(c)] = @ \o answeringAll(out.flights, c)]
               /\ UNCHANGED sfErrors
  /\ sfTask' = [sfTask EXCEPT ![c][p] = "settled"]
  /\ UNCHANGED <<sfPc, sfRet, confirmVars>>
  /\ UNCHANGED <<cfgVars, searchVars, normVars, priceVars, cityVars, tokenVars, soapVars>>

\* Promise.allSettled of call c resolves; the call deduplicates and sorts
\* its array and returns.  `concurrent` notes that another call was waiting.
PairReturns(c) ==
  /\ sfPc[c] = "waiting"
  /\ \A p \in Providers : sfTask[c][p] \in {"off", "settled"}
  /\ LET r == searchFlightsMultiAPI(sfResults[arraysOf(c)], sfErrors[arraysOf(c)])
     IN sfRet' = [sfRet EXCEPT ![c] =
                    [voos |-> r.voos, erros |-> r.erros,
                     concurrent |-> \E k \in SearchCalls \ {c} : sfPc[k] = "waiting"]]
  /\ sfPc' = [sfPc EXCEPT ![c] = "done"]
  /\ UNCHANGED <<sfTask, sfResults, sfErrors, confirmVars>>
  /\ UNCHANGED <<cfgVars, searchVars, normVars, priceVars, cityVars, tokenVars, soapVars>>

\* The caller of call c has its answer.
PairNext(c) ==
  /\ sfPc[c] = "done"
  /\ sfPc' = [sfPc EXCEPT ![c] = "idle"]
  /\ sfTask' = [sfTask EXCEPT ![c] = [p \in Providers |-> "off"]]
  /\ sfResults' = [sfResults EXCEPT ![c] = <<>>]
  /\ sfErrors' = [sfErrors EXCEPT ![c] = <<>>]
  /\ sfRet' = [sfRet EXCEPT ![c] = NoPairRet]
  /\ UNCHANGED confirmVars
  /\ UNCHANGED <<cfgVars, searchVars, normVars, priceVars, cityVars, tokenVars, soapVars>>

\* --------------------------------------------------- specifications
vars == <<cfgVars, searchVars, normVars, confirmVars, priceVars, cityVars, tokenVars, soapVars, pairVars>>

NormIdle ==
  /\ nfFlight = CHOOSE f \in FlightInputs : TRUE
  /\ nfSource = "OUTRA"
  /\ nfOut = <<>>

ConfirmIdle ==
  /\ cbPc = "idle"
  /\ cbInput = [isArray |-> TRUE, offers |-> <<>>]
  /\ cbTask = <<>>
  /\ netCalls = {}
  /\ cbRet = <<>>
  /\ tokenCache = "empty"

TokenIdle ==
  /\ now = 1
  /\ amadeusToken = 0
  /\ amadeusTokenExpiry = 0
  /\ tokenFetch = NoFetch
  /\ tkCall = [c \in Callers |-> IdleCall]
  /\ issued = 0

SoapIdle ==
  /\ soPc = "idle"
  /\ soClient = ""
  /\ soResultado = Undefined
  /\ soCause = ""
  /\ soRet = NoSoapRet

PairIdle ==
  /\ sfPc = [c \in SearchCalls |-> "idle"]
  /\ sfTask = [c \in SearchCalls |-> [p \in Providers |-> "off"]]
  /\ sfResults = [c \in SearchCalls |-> <<>>]
  /\ sfErrors = [c \in SearchCalls |-> <<>>]
  /\ sfRet = [c \in SearchCalls |-> NoPairRet]

CityIdle ==
  /\ ccCity = <<>>
  /\ ccOut = NotResolved

PriceIdle ==
  /\ cpPc = "idle"
  /\ cpOffer = Null
  /\ cpCause = ""
  /\ cpOut = NotEnded
  /\ cpRequest = NoRequest

SearchIdle ==
  /\ pc = "idle"
  /\ task = [p \in Providers |-> "off"]
  /\ raised = [p \in Providers |-> FALSE]
  /\ results = <<>>
  /\ errors = <<>>
  /\ resultado = NoResultado
  /\ ret = Pending
  /\ asked = [p \in Providers |-> 0]

\* The search service.
Init == InitSearch /\ NormIdle /\ ConfirmIdle /\ PriceIdle /\ CityIdle /\ TokenIdle /\ SoapIdle /\ PairIdle

Next ==
  \/ StartSearch
  \/ TravelLinkSettles
  \/ AmadeusSettles
  \/ AviationStackSettles
  \/ SearchReturns
  \/ NextRequest

Spec == Init /\ [][Next]_vars

\* The search service with answers of at most LiveResults offers, when every
\* call to a provider ends, by its answer, its failure or its timeout, and
\* every continuation that can run does.
NextLive ==
  \/ StartSearch
  \/ TravelLinkSettlesWith(LiveResults)
  \/ AmadeusSettlesWith(LiveResults)
  \/ AviationStackSettlesWith(LiveResults)
  \/ SearchReturns
  \/ NextRequest

\* The step SearchReturns takes, by what it does to pc: the continuation of
\* await Promise.allSettled(promises), which runs to the return.
SearchCompletes == pc = "waiting" /\ allSettled(task) /\ pc' = "done"

Fairness ==
  /\ WF_vars(TravelLinkSettlesWith(LiveResults))
  /\ WF_vars(AmadeusSettlesWith(LiveResults))
  /\ WF_vars(AviationStackSettlesWith(LiveResults))
  /\ WF_pc(SearchCompletes)

SpecLive == Init /\ [][NextLive]_vars /\ Fairness

\* normalizeFlight and calculateReliability, applied to every input.
InitNormalize ==
  /\ API_CONFIG = [travellink |-> TRUE, amadeus |-> FALSE, aviationstack |-> FALSE]
  /\ USE_MOCK_FLIGHTS = FALSE
  /\ SearchIdle
  /\ nfFlight \in FlightInputs
  /\ nfSource \in SourceTags
  /\ nfOut = <<>>
  /\ ConfirmIdle
  /\ PriceIdle
  /\ CityIdle
  /\ TokenIdle /\ SoapIdle /\ PairIdle

NextNormalize == NormalizeCall \/ NormalizeNext

SpecNormalize == InitNormalize /\ [][NextNormalize]_vars

\* The price confirmation of batches.
InitConfirm ==
  /\ API_CONFIG \in {c \in Configs : ~c.aviationstack}
  /\ USE_MOCK_FLIGHTS = FALSE
  /\ SearchIdle
  /\ NormIdle
  /\ ConfirmIdle
  /\ PriceIdle
  /\ CityIdle
  /\ TokenIdle /\ SoapIdle /\ PairIdle

NextConfirm ==
  \/ ConfirmBatchStart
  \/ \E i \in 1..MaxBatch + 1 : AuthResponds(i)
  \/ \E i \in 1..MaxBatch + 1 : PricingResponds(i)
  \/ ConfirmBatchReturns
  \/ ConfirmBatchNext
  \/ TokenExpires

SpecConfirm == InitConfirm /\ [][NextConfirm]_vars

\* The price confirmation of one offer.
NextConfirmPrice ==
  \/ ConfirmPriceStart
  \/ ConfirmPriceAuthResponds
  \/ ConfirmPricePricingResponds
  \/ ConfirmPriceNext
  \/ TokenExpires

SpecConfirmPrice == InitConfirm /\ [][NextConfirmPrice]_vars

\* The two location-code resolvers, applied to every input.
InitCity ==
  /\ API_CONFIG = [travellink |-> TRUE, amadeus |-> FALSE, aviationstack |-> FALSE]
  /\ USE_MOCK_FLIGHTS = FALSE
  /\ SearchIdle /\ NormIdle /\ ConfirmIdle /\ PriceIdle /\ TokenIdle /\ SoapIdle /\ PairIdle
  /\ ccCity \in CityInputs
  /\ ccOut = NotResolved

NextCityCode == ResolveCity \/ NextCity

SpecCity == InitCity /\ [][NextCityCode]_vars

\* The token cache and its callers, with the clock.
InitToken ==
  /\ API_CONFIG = [travellink |-> TRUE, amadeus |-> TRUE, aviationstack |-> FALSE]
  /\ USE_MOCK_FLIGHTS = FALSE
  /\ SearchIdle /\ NormIdle /\ ConfirmIdle /\ PriceIdle /\ CityIdle /\ TokenIdle /\ SoapIdle /\ PairIdle

NextToken ==
  \/ \E c \in Callers : TokenRequest(c)
  \/ \E c \in Callers : TokenResponds(c)
  \/ \E c \in Callers : TokenCallEnds(c)
  \/ Tick

SpecToken == InitToken /\ [][NextToken]_vars

\* One searchTravelLink call after the other, over every outcome.
InitSoap ==
  /\ API_CONFIG = [travellink |-> TRUE, amadeus |-> FALSE, aviationstack |-> FALSE]
  /\ USE_MOCK_FLIGHTS = FALSE
  /\ SearchIdle /\ NormIdle /\ ConfirmIdle /\ PriceIdle /\ CityIdle /\ TokenIdle /\ SoapIdle /\ PairIdle

NextSoap ==
  \/ SoapStart
  \/ SoapClientResponds
  \/ SoapCallResponds
  \/ SoapNext

SpecSoap == InitSoap /\ [][NextSoap]_vars

\* Two search calls side by side, with every provider enabled.
InitPair ==
  /\ API_CONFIG = [travellink |-> TRUE, amadeus |-> TRUE, aviationstack |-> TRUE]
  /\ USE_MOCK_FLIGHTS = FALSE
  /\ SearchIdle /\ NormIdle /\ ConfirmIdle /\ PriceIdle /\ CityIdle /\ TokenIdle /\ SoapIdle /\ PairIdle

NextPair ==
  \/ \E c \in SearchCalls : PairStart(c)
  \/ \E c \in SearchCalls : PairAmadeusToken(c)
  \/ \E c \in SearchCalls : \E p \in Providers : PairSettles(c, p)
  \/ \E c \in SearchCalls : PairReturns(c)
  \/ \E c \in SearchCalls : PairNext(c)

SpecPair == InitPair /\ [][NextPair]_vars

\* ------------------------------------------------ the search, observed
Done == pc = "done"
AllEnabled == \A p \in Providers : enabled(p)
Failing == {p \in Providers : enabled(p) /\ raised[p]}
Succeeding == {p \in Providers : enabled(p) /\ ~raised[p]}
ToSet(seq) == {seq[i] : i \in 1..Len(seq)}
Keys(seq) == {dedupKey(seq[i]) : i \in 1..Len(seq)}
\* Every enabled provider answered, and none had a match.
AllAnsweredEmpty == Failing = {} /\ results = <<>>
\* Every enabled provider failed.
AllFailed == Succeeding = {}

\* C1: with the three providers enabled and some but not all of them failing,
\* the search returns the offers of the providers that succeeded, one per
\* dedup key, and stats.errors holds exactly one record per failing provider.
C1_PartialFailureRecorded ==
  (Done /\ AllEnabled /\ Failing # {} /\ Failing # Providers) =>
    /\ ToSet(resultado.voos) \subseteq ToSet(results)
    /\ Keys(resultado.voos) = Keys(results)
    /\ \A i \in 1..Len(resultado.voos) : resultado.voos[i].fonte.s \in Succeeding
    /\ Len(resultado.erros) = Cardinality(Failing)
    /\ \A p \in Failing : \E i \in 1..Len(resultado.erros) : resultado.erros[i].source = p

\* C2: when every enabled provider call fails and the mock fallback is off,
\* the search does not return a list: it fails with a provider error.
C2_TotalFailureRaises ==
  (Done /\ AllFailed /\ ~USE_MOCK_FLIGHTS) => ret.kind = "throw"

\* C3: when every enabled provider returns an empty array without error and
\* the mock fallback is on, the search returns the mock generator's output:
\* a non-empty list in which every offer has sourceProvider (fonte) "MOCK".
C3_FallbackOffersAreMock ==
  (Done /\ AllAnsweredEmpty /\ USE_MOCK_FLIGHTS) =>
    /\ ret.kind = "list"
    /\ Len(ret.voos) > 0
    /\ \A i \in 1..Len(ret.voos) : ret.voos[i].fonte = Str("MOCK")

\* C4: the caller can tell the three outcomes apart (mock fallback off): all
\* providers answered with zero matches gives an empty list and no errors;
\* all providers unreachable gives a raised error; some unreachable with
\* partial results gives a non-empty list and a non-empty stats.errors.
C4_OutcomesDistinguishable ==
  (Done /\ ~USE_MOCK_FLIGHTS) =>
    /\ AllAnsweredEmpty => (ret = Returned(<<>>) /\ resultado.erros = <<>>)
    /\ AllFailed => ret.kind = "throw"
    /\ (Failing # {} /\ results # <<>>) =>
         (ret.kind = "list" /\ ret.voos # <<>> /\ resultado.erros # <<>>)

\* C5: the search ends normally whenever at least one offer was obtained or
\* every enabled provider answered with zero matches and no error: no adapter
\* failure reaches the caller as an exception; with an offer obtained the
\* caller gets the offers, and with none (mock fallback off) an empty list.
C5_NoRaiseOutsideTotalFailure ==
  Done =>
    /\ (results # <<>> \/ AllAnsweredEmpty) => ret.kind = "list"
    /\ results # <<>> => (ret.voos = resultado.voos /\ ret.voos # <<>>)
    /\ (AllAnsweredEmpty /\ ~USE_MOCK_FLIGHTS) => ret = Returned(<<>>)

\* C5 witness: a search in which a provider failed and another delivered, and
\* which returned the delivered offers.
C5_Witness ==
  /\ Done /\ AllEnabled /\ Failing # {} /\ results # <<>>
  /\ ret.kind = "list" /\ ret.voos # <<>>

\* C6: a search result holds exactly one offer per dedup key of the merged
\* list: no key twice, no key of the input missing, also when offers of
\* different providers carry equal ids.
C6_OneOfferPerKey ==
  Done =>
    /\ \A i, j \in 1..Len(resultado.voos) :
         i # j => dedupKey(resultado.voos[i]) # dedupKey(resultado.voos[j])
    /\ Keys(resultado.voos) = Keys(results)

\* C7: the survivor of each key has the greatest reliability among the merged
\* offers with that key, whatever their segment counts and arrival order
\* (stated for merged lists whose ids are pairwise distinct).
distinctIds(seq) == \A i, j \in 1..Len(seq) : i # j => seq[i].id # seq[j].id
C7_SurvivorMostReliable ==
  (Done /\ distinctIds(results)) =>
    \A i \in 1..Len(resultado.voos) : \A j \in 1..Len(results) :
      dedupKey(results[j]) = dedupKey(resultado.voos[i]) =>
        results[j].confiabilidade.n <= resultado.voos[i].confiabilidade.n

\* C8: every list the search returns is ordered by reliability descending
\* and, among offers of equal reliability, by price ascending.
inOrder(a, b) ==
  \/ Greater(a.confiabilidade, b.confiabilidade)
  \/ /\ a.confiabilidade = b.confiabilidade
     /\ parseFloat(a.preco).n <= parseFloat(b.preco).n
C8_SortedByReliabilityThenPrice ==
  (Done /\ ret.kind = "list") =>
    \A i, j \in 1..Len(ret.voos) : i < j => inOrder(ret.voos[i], ret.voos[j])

\* C8 witness: three real offers returned, the first two of equal reliability
\* and rising price, the third less reliable, in another order than they
\* were merged in.
C8_Witness ==
  /\ Done /\ ret.kind = "list" /\ Len(ret.voos) = 3 /\ ret.voos = resultado.voos
  /\ ret.voos[1].confiabilidade = ret.voos[2].confiabilidade
  /\ ret.voos[1].preco.n < ret.voos[2].preco.n
  /\ Greater(ret.voos[2].confiabilidade, ret.voos[3].confiabilidade)
  /\ ret.voos # results

\* C9: the reliability score of every normalized offer lies in [0, 1] (0 to
\* 10 tenths), for every source tag and every combination of completeness.
C9_ReliabilityInUnitInterval ==
  nfOut # <<>> =>
    /\ nfOut[1].confiabilidade.t = "number"
    /\ nfOut[1].confiabilidade.n >= 0
    /\ nfOut[1].confiabilidade.n <= 10

\* C9 witness: an offer of the highest-weighted source with segment detail
\* and a positive price, whose score is 1.0.
C9_Witness ==
  /\ nfOut # <<>> /\ nfSource = "TRAVELLINK"
  /\ idaLength(nfFlight) > 0 /\ Greater(parseFloat(nfFlight.preco), Num(0))
  /\ nfOut[1].confiabilidade = Num(10)

\* C10: confirmMultipleFlightPrices issues network calls only for the first 5
\* offers of its argument; an offer at position 6 or beyond causes none.
C10_OnlyFirstFiveConfirmed ==
  /\ \A c \in netCalls : c.index <= BatchLimit /\ c.index <= Len(cbInput.offers)
  /\ Cardinality({c \in netCalls : c.kind = "pricing"}) <= BatchLimit
  /\ Len(cbTask) <= BatchLimit

\* C10 witness: a batch of 7 offers has returned, the pricing request went
\* out for each of the first five and five confirmations came back.
C10_Witness ==
  /\ cbPc = "done" /\ Len(cbInput.offers) = 7
  /\ {c.index : c \in {d \in netCalls : d.kind = "pricing"}} = 1..BatchLimit
  /\ Len(cbRet) = BatchLimit

\* ------------------------------------------- the batch, observed
okTasks == {i \in 1..Len(cbTask) : cbTask[i].pc = "ok"}

\* C11: confirmMultipleFlightPrices never fails as a whole: for every argument
\* (no array, empty, with a null element, Amadeus disabled, any of the
\* confirmations failing) it ends by returning a list, which holds one
\* element per confirmation that succeeded and none for one that failed.
C11_ConfirmBatchNeverRaises ==
  /\ cbPc # "thrown"
  /\ cbPc = "done" => Len(cbRet) = Cardinality(okTasks)

\* C11 witness: a batch with a null element in which a confirmation failed
\* and another succeeded has returned its list.
C11_Witness ==
  /\ cbPc = "done"
  /\ \E i \in 1..Len(cbTask) : cbInput.offers[i] = Null /\ cbTask[i].pc = "failed"
  /\ okTasks # {}
  /\ Len(cbRet) = Cardinality(okTasks) /\ Len(cbRet) < Len(cbTask)

\* C12: the returned list is exactly the selected offers whose confirmation
\* succeeded, in input order; each element carries its own offer's original
\* price and the record its own confirmation produced.
C12_OwnPricesInInputOrder ==
  cbPc = "done" =>
    /\ Len(cbRet) = Cardinality(okTasks)
    /\ \A i \in okTasks :
         LET j == Cardinality({k \in okTasks : k <= i})
         IN /\ cbRet[j].id = cbInput.offers[i].id
            /\ cbRet[j].precoOriginal = cbInput.offers[i].total
            /\ cbRet[j].precoConfirmado.id = cbInput.offers[i].id
            /\ cbRet[j].precoConfirmado.preco = cbTask[i].preco

\* C12 witness: of three or more offers the first was not confirmed and the
\* second and third were, the second at a new price and the third at its own;
\* the list holds the second and the third, each with its own two prices.
C12_Witness ==
  /\ cbPc = "done" /\ Len(cbTask) >= 3
  /\ cbTask[1].pc = "failed" /\ cbTask[2].pc = "ok" /\ cbTask[3].pc = "ok"
  /\ Len(cbRet) >= 2
  /\ cbRet[1].id = Str("2") /\ cbRet[2].id = Str("3")
  /\ cbRet[1].precoOriginal = Str("500") /\ cbRet[1].precoConfirmado.preco = Str("900")
  /\ cbRet[2].precoOriginal = Str("800") /\ cbRet[2].precoConfirmado.preco = Str("800")

\* -------------------------------------- one confirmation, observed
\* The kind of error a thrown Error stands for, by the statement that threw
\* it: confirmFlightPrice has one throw per kind it tells apart.
errorClass(out) ==
  CASE out.thrownAt = 798 -> "ValidationError"
    [] out.thrownAt = 800 -> "NotFound"
    [] out.thrownAt = 802 -> "RateLimited"
    [] OTHER -> "ProviderUnavailable"

\* C13: confirmFlightPrice returns a confirmed price or fails with the error
\* its cause selects: 400 from the pricing request a ValidationError, 404
\* NotFound, 429 RateLimited, credentials rejected at the token exchange an
\* AuthenticationError, any other failure ProviderUnavailable.
C13_ErrorChosenByCause ==
  cpPc = "done" =>
    CASE cpCause = "" -> cpOut.kind = "return"
      [] cpCause = "pricing400" -> cpOut.kind = "throw" /\ errorClass(cpOut) = "ValidationError"
      [] cpCause = "pricing404" -> cpOut.kind = "throw" /\ errorClass(cpOut) = "NotFound"
      [] cpCause = "pricing429" -> cpOut.kind = "throw" /\ errorClass(cpOut) = "RateLimited"
      [] cpCause = "token-http401" ->
           cpOut.kind = "throw" /\ errorClass(cpOut) = "AuthenticationError"
      [] OTHER -> cpOut.kind = "throw" /\ errorClass(cpOut) = "ProviderUnavailable"

\* ------------------------------------------ the resolvers, observed
\* C14: for every input string (shorter than 3 characters, empty, padded
\* with blanks) each resolver returns a string of exactly 3 characters.
C14_AlwaysThreeCharacters ==
  ccOut.done => Len(ccOut.multiAPI) = 3 /\ Len(ccOut.flightsService) = 3

\* The four steps of the resolution order, for a resolver with table map.
isThreeLetters(city) == Len(city) = 3 /\ \A i \in 1..3 : city[i] \in AsciiLetters
inTable(map, city) == \E e \in map : e[1] = trim(toLowerCase(city))
followsOrder(map, city, code) ==
  IF isThreeLetters(city) THEN code = toUpperCase(city)
  ELSE IF inTable(map, city) THEN <<trim(toLowerCase(city)), code>> \in map
  ELSE IF tokenStarts(city) # {} THEN code = toUpperCase(firstToken(city))
  ELSE code = toUpperCase(substring3(city))

\* C15: a resolver returns an input of exactly 3 letters uppercased; else the
\* code of a name found in its table; else an embedded 3-letter token,
\* uppercased; else the first 3 characters uppercased.
C15_ResolutionOrder ==
  ccOut.done =>
    /\ followsOrder(cityMap_FlightsService, ccCity, ccOut.flightsService)
    /\ followsOrder(cityMap, ccCity, ccOut.multiAPI)

\* ------------------------------------------- the offers, observed
\* C16: the price of every normalized offer is a number that is not
\* negative, whatever price the payload carried (missing, not numeric, zero,
\* negative).
C16_PriceNonNegative ==
  nfOut # <<>> => nfOut[1].preco.t = "number" /\ nfOut[1].preco.n >= 0

\* The offers of one provider in a list.
offersOf(p, seq) == SelectSeq(seq, LAMBDA f : f.fonte = Str(p))

\* C17: no two offers of the list a search returns have the same id, offers
\* of different providers included (each provider's own ids being distinct).
C17_IdsUniqueInResult ==
  (Done /\ ret.kind = "list" /\ \A p \in Providers : distinctIds(offersOf(p, results)))
    => distinctIds(ret.voos)

\* C18: the provider tasks of a search are independent and joined: while the
\* search waits, a step settles one task, never unsettles or cancels another
\* and only appends to the offers collected so far; the search deduplicates
\* and sorts only when no started task is pending, over all collected offers.
C18_JoinWithoutInterference ==
  [][ /\ (pc = "waiting" /\ pc' = "waiting") =>
           /\ Cardinality({p \in Providers : task'[p] # task[p]}) <= 1
           /\ \A p \in Providers : task[p] = "settled" => task'[p] = "settled"
           /\ Len(results') >= Len(results)
           /\ SubSeq(results', 1, Len(results)) = results
      /\ (pc = "waiting" /\ pc' = "done") =>
           /\ \A p \in Providers : task[p] # "pending"
           /\ results' = results
           /\ resultado'.voos = sortFlights(deduplicateFlights(results)) ]_vars

\* C18 witness: Aviationstack failed, Amadeus delivered first and TravelLink,
\* started before it, delivered last; the result holds offers of both.
C18_Witness ==
  /\ Done /\ AllEnabled /\ raised["AVIATIONSTACK"]
  /\ Len(results) >= 2
  /\ results[1].fonte = Str("AMADEUS") /\ results[Len(results)].fonte = Str("TRAVELLINK")
  /\ resultado.fontes.amadeus > 0 /\ resultado.fontes.travellink > 0
  /\ ret.voos = resultado.voos

reuseEnds(fetch) == fetch.at + fetch.lifetime - Margin

\* C20: a request made while a token fetched at t with lifetime L is cached
\* and before t + L - 60 s returns that token without a call to the
\* authorization endpoint; a request made at or after that instant, or with
\* nothing cached, calls the endpoint and never returns the cached token.
C20_TokenReuseWindow ==
  \A c \in Callers :
    LET r == tkCall[c]
    IN /\ r.how = "cached" =>
            /\ r.seen # NoFetch /\ r.at < reuseEnds(r.seen)
            /\ r.token = r.seen.token /\ r.calls = 0
       /\ (r.pc = "fetching" \/ r.how \in {"refreshed", "failed"}) =>
            /\ r.seen = NoFetch \/ r.at >= reuseEnds(r.seen)
            /\ r.calls = 1
            /\ r.how = "refreshed" => r.token # r.seen.token

\* C20 witness: with a token of lifetime 3 cached, one caller asked inside
\* the window and got it from the cache, the other asked at the instant the
\* window ends and is refreshing.
C20_Witness ==
  /\ tokenFetch.lifetime = 3
  /\ tkCall[1].how = "cached" /\ tkCall[1].seen = tokenFetch
  /\ tkCall[1].at = reuseEnds(tokenFetch) - 1
  /\ tkCall[2].pc = "fetching" /\ tkCall[2].seen = tokenFetch
  /\ tkCall[2].at = reuseEnds(tokenFetch)

\* C21: at every state the cached token and the cached expiry are those of
\* one authorization response, the last one that succeeded; a refresh that
\* succeeds leaves its own token in the cache, whatever the other callers
\* are doing, and a refresh that fails changes neither the token nor the
\* expiry.
fromOneResponse ==
  /\ amadeusToken = tokenFetch.token
  /\ amadeusToken = issued
  /\ amadeusTokenExpiry =
       IF tokenFetch = NoFetch THEN 0
       ELSE tokenExpiry(tokenFetch.at, tokenFetch.lifetime)

refreshEnds(c) == tkCall[c].pc = "fetching" /\ tkCall'[c].pc = "done"

C21_LastRefreshWins ==
  /\ []fromOneResponse
  /\ [][\A c \in Callers : refreshEnds(c) =>
          /\ tkCall'[c].how = "refreshed" =>
               /\ amadeusToken' = tkCall'[c].token
               /\ amadeusTokenExpiry' = tokenExpiry(now, tokenFetch'.lifetime)
          /\ tkCall'[c].how = "failed" =>
               UNCHANGED <<amadeusToken, amadeusTokenExpiry>>]_vars

\* Both callers saw the same expired cache, both refreshes succeeded, and
\* the cache holds the token of the one that answered last.
C21_Witness ==
  /\ \A c \in Callers : tkCall[c].pc = "done" /\ tkCall[c].how = "refreshed"
  /\ tkCall[1].seen = tkCall[2].seen
  /\ tkCall[1].token < tkCall[2].token
  /\ amadeusToken = tkCall[2].token
  /\ amadeusTokenExpiry # 0

\* ------------------------------------------ searchTravelLink, observed
SoapDone == soPc = "done"
\* The availability call resolved to something that is neither null nor undefined.
SoapParsed == SoapDone /\ soCause = "" /\ soResultado.t \notin {"null", "undefined"}

\* C22: searchTravelLink settles fulfilled with a list, whatever the client
\* construction, the availability call and the payload did; the list is
\* empty after every failure and for every payload that is no object.
C22_SoapNeverThrows ==
  SoapDone =>
    /\ ~soRet.rejected
    /\ soCause # "" => soRet.flights = <<>>
    /\ soResultado.t \notin {"array", "object"} => soRet.flights = <<>>

\* A remote fault on the availability call ended in an empty list.
C22_Witness ==
  /\ SoapDone
  /\ soClient = "async"
  /\ soCause = "soap fault"
  /\ soRet = Fulfilled(<<>>)

\* The names tried on the response, by priority, and the names tried on
\* what was found.
knownOrder ==
  <<"DisponibilidadeResult", "disponibilidadeResult", "return", "data",
    "Voos", "voos", "Flights", "flights">>
innerOrder == <<"Voos", "voos", "flights", "resultado", "ListaVoos", "listaVoos">>

\* keys[i] holds a truthy value on v and no earlier name does.
isFirstHeld(v, keys, i) ==
  /\ ToBoolean(get(v, keys[i]))
  /\ \A j \in 1..(i - 1) : ~ToBoolean(get(v, keys[j]))
noneHeld(v, keys) == \A i \in 1..Len(keys) : ~ToBoolean(get(v, keys[i]))

\* What the offers are when the offer list is looked for in v: the object
\* items of v when v is an array; the object items of the first truthy of
\* the inner names when v is an object and that value is a non-empty array;
\* v itself as the one offer when v is an object owning a key; else none.
offersIn(v, out) ==
  /\ v.t = "array" => out = formatEach(v.items, ReqOrigem, ReqDestino)
  /\ v.t = "object" =>
       /\ \A i \in 1..Len(innerOrder) :
            LET l == get(v, innerOrder[i])
            IN isFirstHeld(v, innerOrder, i) /\ l.t = "array" /\ Len(l.items) > 0
                 => out = formatEach(l.items, ReqOrigem, ReqDestino)
       /\ ( \/ noneHeld(v, innerOrder)
            \/ \E i \in 1..Len(innerOrder) :
                 /\ isFirstHeld(v, innerOrder, i)
                 /\ ~(get(v, innerOrder[i]).t = "array"
                      /\ Len(get(v, innerOrder[i]).items) > 0) )
            => /\ ObjectKeys(v) # {} =>
                    out = <<formatarVooTravelLink(asVoo(v), ReqOrigem, ReqDestino, 0)>>
               /\ ObjectKeys(v) = {} => out = <<>>
  /\ v.t \notin {"array", "object"} => out = <<>>

\* C23 (amended): the first of the eight wrapper names, in their order,
\* that holds a truthy value on the response gives the place where the offer
\* list is looked for; when none does, the response itself is that place.
\* There an array gives its object items; an object gives the items of a
\* non-empty array held under the first truthy of Voos, voos, flights,
\* resultado, ListaVoos, listaVoos, or else itself as a single offer when
\* it owns a key, or else nothing.
C23_UnwrapByPriority ==
  SoapParsed =>
    /\ \A i \in 1..Len(knownOrder) :
         isFirstHeld(soResultado, knownOrder, i)
           => offersIn(get(soResultado, knownOrder[i]), soRet.flights)
    /\ noneHeld(soResultado, knownOrder) => offersIn(soResultado, soRet.flights)

\* The response owns the primary wrapper and a generic one, each with a
\* list of its own, and the offers are those of the primary wrapper.
C23_Witness ==
  /\ SoapParsed
  /\ get(soResultado, "DisponibilidadeResult") = Arr(<<VooA>>)
  /\ get(soResultado, "return") = Arr(<<Null, VooB, Str("x")>>)
  /\ Len(soRet.flights) = 1
  /\ soRet.flights[1].id = Str("1")

\* C23 as stated: when none of the eight wrapper names matches and the
\* response is no array, the whole response is the one offer when it owns a
\* key, and there is no offer otherwise.
C23_WholePayloadWhenUnmatched ==
  (SoapParsed /\ soResultado.t = "object" /\ noneHeld(soResultado, knownOrder)) =>
     soRet.flights =
       IF ObjectKeys(soResultado) # {}
       THEN <<formatarVooTravelLink(asVoo(soResultado), ReqOrigem, ReqDestino, 0)>>
       ELSE <<>>

\* C24: every offer an adapter produced has, as its outbound stops, a
\* non-negative whole number one less than the number of its outbound
\* segments (flight.ida is that number).
C24_StopsAreSegmentsMinusOne ==
  SoapDone =>
    \A i \in 1..Len(soRet.flights) :
      LET offer == soRet.flights[i]
      IN /\ offer.escalasIda.t = "number"
         /\ offer.escalasIda.n >= 0
         /\ offer.ida.t = "number"
         /\ offer.escalasIda.n = offer.ida.n - 1

\* C25: the pricing request for an offer that search returned goes to the
\* pricing endpoint of the provider the offer came from, and carries the
\* raw offer that provider had sent.
C25_RoutedToOwnProvider ==
  (cpRequest # NoRequest /\ cpOffer \in SearchOffers) =>
     /\ cpRequest.endpoint = cpOffer.fonte.s
     /\ cpRequest.body = cpOffer.originalOffer

\* The terms of the score, in tenths, read off the call and its result.
sourceWeight(source) ==
  CASE source = "TRAVELLINK" -> 4
    [] source = "AMADEUS" -> 3
    [] source = "AVIATIONSTACK" -> 2
    [] OTHER -> 0
completenessBonus(flight, offer) ==
  (IF idaLength(flight) > 0 THEN 1 ELSE 0) + (IF Greater(offer.preco, Num(0)) THEN 1 ELSE 0)
clamp(x, lo, hi) == IF x < lo THEN lo ELSE IF x > hi THEN hi ELSE x

\* C26: the score of a normalized offer is clamp(0.5 + sourceWeight +
\* completenessBonus, 0, 1), with weights 0.4, 0.3 and 0.2 for TRAVELLINK,
\* AMADEUS and AVIATIONSTACK, 0.1 for a non-empty outbound segment list and
\* 0.1 for a price above zero; nothing else enters it.
C26_ReliabilityFormula ==
  nfOut # <<>> =>
    nfOut[1].confiabilidade =
      Num(clamp(5 + sourceWeight(nfSource) + completenessBonus(nfFlight, nfOut[1]), 0, 10))

\* An offer of the secondary provider with segments and a price scored 0.9,
\* and without either it would have scored 0.7.
C26_Witness ==
  /\ nfOut # <<>> /\ nfSource = "AVIATIONSTACK"
  /\ idaLength(nfFlight) = 2
  /\ nfFlight.preco = Str("500")
  /\ nfOut[1].confiabilidade = Num(9)

\* C27: every search that has started its provider tasks returns, with a
\* result or an error, however each provider's exchange ends.
C27_SearchEventuallyReturns == (pc = "waiting") ~> (pc = "done" /\ ret.kind # "none")

\* A search returned although the exchanges of two providers ended in a
\* timeout or another failure.
C27_Witness ==
  /\ Done /\ AllEnabled
  /\ raised["TRAVELLINK"] /\ raised["AMADEUS"] /\ ~raised["AVIATIONSTACK"]
  /\ ret.kind = "list"
  /\ Len(results) = 1

\* The orders in which the three provider tasks can complete, and the merged
\* list each order leaves in `results` for the responses of this search.
CompletionOrders ==
  {o \in [1..3 -> Providers] : \A i, j \in 1..3 : i # j => o[i] # o[j]}
mergedIn(o) == offersOf(o[1], results) \o offersOf(o[2], results) \o offersOf(o[3], results)

\* C28: with the responses of this search, every completion order of the
\* provider tasks gives the same set of returned offers (stated for merged
\* lists whose ids are pairwise distinct).
C28_SameOffersForEveryOrder ==
  (Done /\ distinctIds(results)) =>
    \A o \in CompletionOrders :
      ToSet(searchFlightsMultiAPI(mergedIn(o), errors).voos) = ToSet(resultado.voos)

\* ------------------------------------------ the two calls, observed
\* What belongs to call c alone.
ownState(c) == <<sfPc[c], sfTask[c], sfResults[c], sfErrors[c], sfRet[c]>>
\* Every offer and every error record in the list answers a request of call c.
allAnswering(seq, c) == \A i \in 1..Len(seq) : seq[i].req = Num(c)

\* C29: whatever a search call has collected and whatever it returns
\* answers its own requests, while another call is in flight or not; a step
\* touches the arrays, the tasks and the result of one call only, the
\* token cache being all that a step of one call changes for the other.
C29_CallsIsolated ==
  /\ [](\A c \in SearchCalls :
          /\ allAnswering(sfResults[c], c) /\ allAnswering(sfErrors[c], c)
          /\ allAnswering(sfRet[c].voos, c) /\ allAnswering(sfRet[c].erros, c))
  /\ [][\A c, k \in SearchCalls :
          (c # k /\ ownState(c)' # ownState(c)) => ownState(k)' = ownState(k)]_vars

\* Call 1 returned offers while call 2 was waiting for its providers, and
\* call 2 has returned offers since; the token one of them fetched is cached.
C29_Witness ==
  /\ sfPc[1] = "done" /\ sfRet[1].concurrent /\ Len(sfRet[1].voos) = 2
  /\ sfPc[2] = "done" /\ Len(sfRet[2].voos) >= 1
  /\ tokenCache = "fresh"

\* C30: for every input string, getCityCode of the multi-API module and
\* getCityCode of the flight-search service return the same code.
C30_ResolversAgree ==
  ccOut.done => ccOut.multiAPI = ccOut.flightsService

====
